---- MODULE Spec2Model ----
(***************************************************************************)
(* Model of the concurrent demonstrations of the golang-mastery modules:   *)
(*   - the worker pool of 06_concurrency (workerPool and SECTION 10 of     *)
(*     main): N workers range over a buffered jobs channel, send squares   *)
(*     on a buffered results channel, a coordinator goroutine waits on the *)
(*     WaitGroup and closes results, main sums what it receives;           *)
(*   - the circuit breaker of 10_advanced_patterns (CircuitBreaker.Call).  *)
(* Channel operations, WaitGroup operations and mutex operations are the   *)
(* atomic steps; goroutines interleave between them.                       *)
(***************************************************************************)
EXTENDS Integers, Sequences, FiniteSets, Bags, TLC

(***************************************************************************)
(* Bounds of the model.  The demo runs 3 workers on 9 jobs with channel    *)
(* capacities of 20; the model draws pool size, job count and capacities   *)
(* from the ranges below, so that both the non-blocking configuration of   *)
(* the demo (capacity >= job count) and blocking ones are covered.         *)
(***************************************************************************)
MaxWorkers == 2

MaxJobs == 4

MaxCap == 2

\* Circuit breaker: number of concurrent callers, calls made in a run, clock
\* ticks in a run, and the ranges of the constructor's arguments.
NumCallers == 2

MaxCalls == 5

MaxTicks == 3

MaxThreshold == 3

MaxTimeout == 1

VARIABLES
  numWorkers,      \* pool size N (the bound of the `w` loop)
  numJobs,         \* job count M (the bound of the `j` loop)
  jobsCap,         \* capacity of the jobs channel
  resultsCap,      \* capacity of the results channel
  jobs,            \* buffer of the jobs channel
  jobsClosed,      \* the jobs channel has been closed
  results,         \* buffer of the results channel
  resultsClosed,   \* the results channel has been closed
  wg4,             \* counter of the WaitGroup
  mainPc,          \* position of main in SECTION 10
  w,               \* loop variable of the worker-start loop
  j,               \* loop variable of the job-send loop
  sum,             \* main's accumulator
  workerPc,        \* position of each worker goroutine
  job,             \* the job a worker holds (0: none)
  closerPc,        \* position of the coordinator goroutine
  panicked,        \* "none", or the runtime panic that ended the program
  takeCount,       \* history: per job, number of receives that delivered it
  sendCount,       \* history: per job, number of results sent for it
  received,        \* history: bag of the results main has received
  resultsClosedBy, \* history: who executed close(results), in order
  jobsClosedBy,    \* history: who executed close(jobs), in order
  \* ---- CircuitBreaker (10_advanced_patterns) ----
  mu,              \* cb.mu: 0 when unlocked, else the caller holding it
  state,           \* cb.state
  failures,        \* cb.failures
  threshold,       \* cb.threshold
  lastFailTime,    \* cb.lastFailTime
  timeout,         \* cb.timeout
  now,             \* the wall clock read by time.Now / time.Since
  callPc,          \* position of each caller inside Call
  err,             \* per caller: the local err := fn()
  ret,             \* per caller: what its latest Call returned
  tmp,             \* per caller: the value read by cb.failures++
  calls,           \* number of calls started
  streak,          \* history: operation failures since the last success
  probe,           \* history: per caller, its call moved Open -> HalfOpen
  probeAdmittedAt, \* history: clock value when the latest probe was admitted
  lastExec,        \* history: kind of the latest completed execution
  fnRuns,          \* history: per caller, runs of fn in its current call
  stdout,          \* the lines Call has printed (fmt.Println / fmt.Printf)
  \* ---- Pipeline (06_concurrency, generate / square / addTen) ----
  nums,            \* the arguments of generate
  genPc,           \* position of generate's goroutine
  genI,            \* index of the next element generate sends
  ch1Closed,       \* generate's out channel has been closed
  sqPc,            \* position of square's goroutine
  sqVal,           \* the n square holds
  ch2Closed,       \* square's out channel has been closed
  addPc,           \* position of addTen's goroutine
  addVal,          \* the n addTen holds
  ch3Closed,       \* addTen's out channel has been closed
  consPc,          \* position of main in `for v := range pipeline`
  consVal,         \* the v main holds
  printed,         \* the values main has printed, in order
  pipePanicked,    \* "none", or the runtime panic that ended the program
  \* ---- Done channel (06_concurrency, producer and SECTION 7 of main) ----
  dNow,            \* the clock, in units of 10 ms
  doneClosed,      \* doneCh has been closed
  outBuf,          \* buffer of outCh
  outClosed,       \* outCh has been closed
  prodPc,          \* position of the producer goroutine
  prodI,           \* the producer's loop variable i
  prodWake,        \* when the producer's time.Sleep returns
  dmPc,            \* position of main in SECTION 7
  dmWake,          \* when main's time.Sleep returns
  count,           \* main's count
  donePanicked,    \* "none", or the runtime panic that ended the program
  \* ---- SafeCounter (06_concurrency, SECTION 8 of main) ----
  numInc,          \* K, the number of goroutines main starts
  scMu,            \* counter.mu: 0 when unlocked, else the holder
  scCount,         \* counter.count
  incPc,           \* position of each incrementing goroutine
  incTmp,          \* per goroutine: the value read by c.count++
  wg2,             \* counter of the WaitGroup
  smPc,            \* position of main in SECTION 8
  smI,             \* main's loop variable i
  smValue,         \* what counter.Value() returned to main (-1: not yet)
  \* ---- slowDBQuery (10_advanced_patterns) ----
  dbQuery,         \* per call: the query argument
  ctxErr,          \* per call: ctx.Err() ("nil" while ctx is not done)
  resultCh,        \* per call: buffer of resultCh
  helperPc,        \* per call: position of the goroutine slowDBQuery starts
  helperSends,     \* history: per call, sends the goroutine has completed
  queryPc,         \* per call: position of slowDBQuery
  qResult,         \* per call: the string slowDBQuery returned (<<>>: "")
  qErr,            \* per call: the error slowDBQuery returned
  \* ---- EventBus (10_advanced_patterns) ----
  subType,         \* per subscriber: the event type it subscribes its handler to
  pubType,         \* per publisher: the type of the event it publishes
  ebWriter,        \* eb.mu: 0, or the subscriber holding the write lock
  ebReaders,       \* eb.mu: the publishers holding the read lock
  handlers,        \* eb.handlers: per event type, the handlers in order
  subPc,           \* position of each subscriber inside Subscribe
  pubPc,           \* position of each publisher inside Publish
  snap,            \* per publisher: its local `handlers`
  pubIdx,          \* per publisher: index of the next handler in its loop
  started,         \* per publisher: the invocations `go h(e)` has started
  pendingInv,      \* the started invocations that have not run yet
  ran,             \* per publisher: its invocations that have run, in order
  snapSubs,        \* history: per publisher, who had subscribed to its type
                   \* when it read the map
  \* ---- Chunk (09_generics) ----
  slice0,          \* history: the slice argument as passed
  size0,           \* history: the size argument as passed
  slice,           \* the parameter slice (re-sliced by the loop)
  size,            \* the parameter size (lowered by the loop)
  chunks,          \* var chunks [][]T
  chunkPc          \* position of Chunk: "loop" | "returned" | "panicked"

poolVars == <<numWorkers, numJobs, jobsCap, resultsCap, jobs, jobsClosed,
              results, resultsClosed, wg4, mainPc, w, j, sum, workerPc, job,
              closerPc, panicked, takeCount, sendCount, received,
              resultsClosedBy, jobsClosedBy>>

cbVars == <<mu, state, failures, threshold, lastFailTime, timeout, now,
            callPc, err, ret, tmp, calls, streak, probe, probeAdmittedAt,
            lastExec, fnRuns, stdout>>

pipeVars == <<nums, genPc, genI, ch1Closed, sqPc, sqVal, ch2Closed, addPc,
              addVal, ch3Closed, consPc, consVal, printed, pipePanicked>>

doneVars == <<dNow, doneClosed, outBuf, outClosed, prodPc, prodI, prodWake,
              dmPc, dmWake, count, donePanicked>>

ctrVars == <<numInc, scMu, scCount, incPc, incTmp, wg2, smPc, smI, smValue>>

dbVars == <<dbQuery, ctxErr, resultCh, helperPc, helperSends, queryPc,
            qResult, qErr>>

busVars == <<subType, pubType, ebWriter, ebReaders, handlers, subPc, pubPc,
             snap, pubIdx, started, pendingInv, ran, snapSubs>>

chunkVars == <<slice0, size0, slice, size, chunks, chunkPc>>

vars == <<poolVars, cbVars, pipeVars, doneVars, ctrVars, dbVars, busVars,
    chunkVars>>

Workers == 1..numWorkers

Jobs == 1..numJobs

(***************************************************************************)
(* Channel primitives (Go runtime semantics of a buffered channel).        *)
(***************************************************************************)

\* A send on an open channel proceeds when the buffer has room.
CanSendBelowCap(buf, cap) == Len(buf) + 1 < cap

CanSend(buf, cap) == Len(buf) < cap

\* A receive delivers the oldest buffered element and removes it.
RecvValueNewest(buf) == buf[Len(buf)]

RecvValue(buf) == Head(buf)

RecvRestPeek(buf) == buf

RecvRest(buf) == Tail(buf)

\* `for x := range ch` leaves the loop when ch is closed AND drained.
RangeEndsOnClose(buf, closed) == closed

RangeEnds(buf, closed) == closed /\ buf = <<>>

\* sync.WaitGroup.Wait returns when the counter is zero.
WaitReturnsAlways(counter) == TRUE

WaitReturns(counter) == counter = 0

\* The transformation of workerPool: the square of the job.
TransformDouble(x) == x * 2

Transform(x) == x * x

Running == panicked = "none"

(***************************************************************************)
(* The pool: initial state (SECTION 10, before the first statement runs).  *)
(***************************************************************************)
PoolInit ==
  /\ numWorkers \in 1..MaxWorkers
  /\ numJobs \in 0..MaxJobs
  /\ jobsCap \in 1..MaxCap
  /\ resultsCap \in 1..MaxCap
  /\ jobs = <<>>
  /\ jobsClosed = FALSE
  /\ results = <<>>
  /\ resultsClosed = FALSE
  /\ wg4 = 0
  /\ mainPc = "spawn"
  /\ w = 1
  /\ j = 1
  /\ sum = 0
  /\ workerPc = [k \in 1..numWorkers |-> "unstarted"]
  /\ job = [k \in 1..numWorkers |-> 0]
  /\ closerPc = "unstarted"
  /\ panicked = "none"
  /\ takeCount = [x \in 1..numJobs |-> 0]
  /\ sendCount = [x \in 1..numJobs |-> 0]
  /\ received = EmptyBag
  /\ resultsClosedBy = <<>>
  /\ jobsClosedBy = <<>>

\* The demo's own configuration: 3 workers, 9 jobs, both channels of
\* capacity 20.
DemoWorkers == 3

DemoJobs == 9

DemoCap == 20

PoolDemoInit ==
  /\ numWorkers = DemoWorkers
  /\ numJobs = DemoJobs
  /\ jobsCap = DemoCap
  /\ resultsCap = DemoCap
  /\ jobs = <<>>
  /\ jobsClosed = FALSE
  /\ results = <<>>
  /\ resultsClosed = FALSE
  /\ wg4 = 0
  /\ mainPc = "spawn"
  /\ w = 1
  /\ j = 1
  /\ sum = 0
  /\ workerPc = [k \in 1..DemoWorkers |-> "unstarted"]
  /\ job = [k \in 1..DemoWorkers |-> 0]
  /\ closerPc = "unstarted"
  /\ panicked = "none"
  /\ takeCount = [x \in 1..DemoJobs |-> 0]
  /\ sendCount = [x \in 1..DemoJobs |-> 0]
  /\ received = EmptyBag
  /\ resultsClosedBy = <<>>
  /\ jobsClosedBy = <<>>

(***************************************************************************)
(* main, SECTION 10.                                                       *)
(***************************************************************************)

\* for w := 1; w <= 3; w++ { wg4.Add(1); go workerPool(w, jobs, results, &wg4) }
MainSpawn ==
  /\ Running
  /\ mainPc = "spawn"
  /\ w <= numWorkers
  /\ wg4' = wg4 + 1
  /\ workerPc' = [workerPc EXCEPT ![w] = "range"]
  /\ w' = w + 1
  /\ mainPc' = IF w + 1 > numWorkers THEN "send" ELSE "spawn"
  /\ UNCHANGED <<numWorkers, numJobs, jobsCap, resultsCap, jobs, jobsClosed,
                 results, resultsClosed, j, sum, job, closerPc, panicked,
                 takeCount, sendCount, received, resultsClosedBy,
                 jobsClosedBy>>

\* for j := 1; j <= 9; j++ { jobs <- j }
MainSend ==
  /\ Running
  /\ mainPc = "send"
  /\ j <= numJobs
  /\ IF jobsClosed
       THEN /\ panicked' = "send on closed channel"
            /\ UNCHANGED <<jobs, j>>
       ELSE /\ CanSend(jobs, jobsCap)
            /\ jobs' = Append(jobs, j)
            /\ j' = j + 1
            /\ UNCHANGED panicked
  /\ UNCHANGED <<numWorkers, numJobs, jobsCap, resultsCap, jobsClosed,
                 results, resultsClosed, wg4, mainPc, w, sum, workerPc, job,
                 closerPc, takeCount, sendCount, received, resultsClosedBy,
                 jobsClosedBy>>

\* (variant that closes the jobs channel without waiting for the loop's end)
MainCloseEarly ==
  /\ Running
  /\ mainPc = "send"
  /\ IF jobsClosed
       THEN /\ panicked' = "close of closed channel"
            /\ UNCHANGED <<jobsClosed, mainPc, jobsClosedBy>>
       ELSE /\ jobsClosed' = TRUE
            /\ jobsClosedBy' = Append(jobsClosedBy, "main")
            /\ mainPc' = IF j > numJobs THEN "go" ELSE "send"
            /\ UNCHANGED panicked
  /\ UNCHANGED <<numWorkers, numJobs, jobsCap, resultsCap, jobs, results,
                 resultsClosed, wg4, w, j, sum, workerPc, job, closerPc,
                 takeCount, sendCount, received, resultsClosedBy>>

\* close(jobs), reached when the send loop has ended
MainClose ==
  /\ Running
  /\ mainPc = "send"
  /\ j > numJobs
  /\ IF jobsClosed
       THEN /\ panicked' = "close of closed channel"
            /\ UNCHANGED <<jobsClosed, mainPc, jobsClosedBy>>
       ELSE /\ jobsClosed' = TRUE
            /\ jobsClosedBy' = Append(jobsClosedBy, "main")
            /\ mainPc' = "go"
            /\ UNCHANGED panicked
  /\ UNCHANGED <<numWorkers, numJobs, jobsCap, resultsCap, jobs, results,
                 resultsClosed, wg4, w, j, sum, workerPc, job, closerPc,
                 takeCount, sendCount, received, resultsClosedBy>>

\* go func() { wg4.Wait(); close(results) }()
MainGo ==
  /\ Running
  /\ mainPc = "go"
  /\ closerPc' = "wait"
  /\ mainPc' = "collect"
  /\ UNCHANGED <<numWorkers, numJobs, jobsCap, resultsCap, jobs, jobsClosed,
                 results, resultsClosed, wg4, w, j, sum, workerPc, job,
                 panicked, takeCount, sendCount, received, resultsClosedBy,
                 jobsClosedBy>>

\* for r := range results { sum += r }: one iteration
MainCollect ==
  /\ Running
  /\ mainPc = "collect"
  /\ results # <<>>
  /\ sum' = sum + RecvValue(results)
  /\ received' = received (+) SetToBag({RecvValue(results)})
  /\ results' = RecvRest(results)
  /\ UNCHANGED <<numWorkers, numJobs, jobsCap, resultsCap, jobs, jobsClosed,
                 resultsClosed, wg4, mainPc, w, j, workerPc, job, closerPc,
                 panicked, takeCount, sendCount, resultsClosedBy,
                 jobsClosedBy>>

\* the range over results ends; main prints the sum
MainCollectEnd ==
  /\ Running
  /\ mainPc = "collect"
  /\ RangeEnds(results, resultsClosed)
  /\ mainPc' = "done"
  /\ UNCHANGED <<numWorkers, numJobs, jobsCap, resultsCap, jobs, jobsClosed,
                 results, resultsClosed, wg4, w, j, sum, workerPc, job,
                 closerPc, panicked, takeCount, sendCount, received,
                 resultsClosedBy,
                 jobsClosedBy>>

(***************************************************************************)
(* workerPool(id, jobs, results, wg): goroutine k.                         *)
(***************************************************************************)

\* for job := range jobs: a job is received
WorkerRecv(k) ==
  /\ Running
  /\ workerPc[k] = "range"
  /\ jobs # <<>>
  /\ job' = [job EXCEPT ![k] = RecvValue(jobs)]
  /\ jobs' = RecvRest(jobs)
  /\ takeCount' = [takeCount EXCEPT ![RecvValue(jobs)] = @ + 1]
  /\ workerPc' = [workerPc EXCEPT ![k] = "send"]
  /\ UNCHANGED <<numWorkers, numJobs, jobsCap, resultsCap, jobsClosed,
                 results, resultsClosed, wg4, mainPc, w, j, sum, closerPc,
                 panicked, sendCount, received, resultsClosedBy,
                 jobsClosedBy>>

\* for job := range jobs: the channel is closed and drained, the loop ends
WorkerRangeEnd(k) ==
  /\ Running
  /\ workerPc[k] = "range"
  /\ RangeEnds(jobs, jobsClosed)
  /\ workerPc' = [workerPc EXCEPT ![k] = "defer"]
  /\ UNCHANGED <<numWorkers, numJobs, jobsCap, resultsCap, jobs, jobsClosed,
                 results, resultsClosed, wg4, mainPc, w, j, sum, job,
                 closerPc, panicked, takeCount, sendCount, received,
                 resultsClosedBy,
                 jobsClosedBy>>

\* results <- job * job
WorkerSend(k) ==
  /\ Running
  /\ workerPc[k] = "send"
  /\ IF resultsClosed
       THEN /\ panicked' = "send on closed channel"
            /\ UNCHANGED <<results, sendCount, workerPc, job>>
       ELSE /\ CanSend(results, resultsCap)
            /\ results' = Append(results, Transform(job[k]))
            /\ sendCount' = [sendCount EXCEPT ![job[k]] = @ + 1]
            /\ workerPc' = [workerPc EXCEPT ![k] = "range"]
            /\ job' = [job EXCEPT ![k] = 0]
            /\ UNCHANGED panicked
  /\ UNCHANGED <<numWorkers, numJobs, jobsCap, resultsCap, jobs, jobsClosed,
                 resultsClosed, wg4, mainPc, w, j, sum, closerPc, takeCount,
                 received, resultsClosedBy,
                 jobsClosedBy>>

WorkerDoneForgotten(k) ==
  /\ Running
  /\ workerPc[k] = "defer"
  /\ workerPc' = [workerPc EXCEPT ![k] = "done"]
  /\ UNCHANGED <<numWorkers, numJobs, jobsCap, resultsCap, jobs, jobsClosed,
                 results, resultsClosed, wg4, mainPc, w, j, sum, job,
                 closerPc, panicked, takeCount, sendCount, received,
                 resultsClosedBy,
                 jobsClosedBy>>

\* defer wg.Done()
WorkerDone(k) ==
  /\ Running
  /\ workerPc[k] = "defer"
  /\ wg4' = wg4 - 1
  /\ workerPc' = [workerPc EXCEPT ![k] = "done"]
  /\ UNCHANGED <<numWorkers, numJobs, jobsCap, resultsCap, jobs, jobsClosed,
                 results, resultsClosed, mainPc, w, j, sum, job, closerPc,
                 panicked, takeCount, sendCount, received, resultsClosedBy,
                 jobsClosedBy>>

(***************************************************************************)
(* The coordinator goroutine: go func() { wg4.Wait(); close(results) }()   *)
(***************************************************************************)

\* wg4.Wait()
CloserWait ==
  /\ Running
  /\ closerPc = "wait"
  /\ WaitReturns(wg4)
  /\ closerPc' = "close"
  /\ UNCHANGED <<numWorkers, numJobs, jobsCap, resultsCap, jobs, jobsClosed,
                 results, resultsClosed, wg4, mainPc, w, j, sum, workerPc,
                 job, panicked, takeCount, sendCount, received,
                 resultsClosedBy,
                 jobsClosedBy>>

\* close(results)
CloserClose ==
  /\ Running
  /\ closerPc = "close"
  /\ IF resultsClosed
       THEN /\ panicked' = "close of closed channel"
            /\ UNCHANGED <<resultsClosed, closerPc, resultsClosedBy>>
       ELSE /\ resultsClosed' = TRUE
            /\ resultsClosedBy' = Append(resultsClosedBy, "coordinator")
            /\ closerPc' = "done"
            /\ UNCHANGED panicked
  /\ UNCHANGED <<numWorkers, numJobs, jobsCap, resultsCap, jobs, jobsClosed,
                 results, wg4, mainPc, w, j, sum, workerPc, job, takeCount,
                 sendCount, received,
                 jobsClosedBy>>

(***************************************************************************)
(* CircuitBreaker (10_advanced_patterns).                                  *)
(***************************************************************************)
Closed == 0

Open == 1

HalfOpen == 2

Callers == 1..NumCallers

\* err values: nil, the guarded operation's own error, the rejection error
NoErr == "nil"

OpErr == "service unavailable"

ErrOpen == "circuit breaker open"

\* The errors the guarded operation can return.  Call's rejection and the
\* demo operation's error are both built by fmt.Errorf without %w, so they
\* have the same dynamic type and a caller can tell errors apart by their
\* text alone; an error is modelled by its text.  The operation is the
\* caller's: it may fail with the demo's text or with any other, the
\* rejection's included.
OpErrors == {"service unavailable", "circuit breaker open"}

\* fmt.Println("[CB] half-open: testing...")
HalfOpenLine == <<"[CB] half-open: testing...">>

\* fmt.Printf("[CB] opened! failures=%d\n", cb.failures)
OpenedLine(f) == <<"[CB] opened! failures=", f>>

\* The clock starts later than any timeout after the zero time.Time (0), the
\* value lastFailTime has in a fresh breaker.
Epoch == MaxTimeout + 1

\* sync.Mutex.Lock proceeds when the mutex is unlocked.
MutexFreeAlways(m) == TRUE

MutexFree(m) == m = 0

\* time.Since(cb.lastFailTime) > cb.timeout
TimeoutElapsedAlways(t, d) == TRUE

TimeoutElapsed(t, d) == now - t > d

\* cb.failures >= cb.threshold || cb.state == HalfOpen
TripsStrictly(f, thr, st) == f > thr \/ st = HalfOpen

TripsEagerly(f, thr, st) == f + 1 >= thr \/ st = HalfOpen

Trips(f, thr, st) == f >= thr \/ st = HalfOpen

\* NewCircuitBreaker(threshold, timeout), threshold >= 1, timeout >= 0; no
\* caller has called yet.
CBInit ==
  /\ threshold \in 1..MaxThreshold
  /\ timeout \in 0..MaxTimeout
  /\ state = Closed
  /\ failures = 0
  /\ lastFailTime = 0
  /\ mu = 0
  /\ now = Epoch
  /\ callPc = [c \in Callers |-> "idle"]
  /\ err = [c \in Callers |-> NoErr]
  /\ ret = [c \in Callers |-> "none"]
  /\ tmp = [c \in Callers |-> 0]
  /\ calls = 0
  /\ streak = 0
  /\ probe = [c \in Callers |-> FALSE]
  /\ probeAdmittedAt = 0
  /\ lastExec = "none"
  /\ fnRuns = [c \in Callers |-> 0]
  /\ stdout = <<>>

\* a caller invokes cb.Call(fn)
CallBegin(c) ==
  /\ callPc[c] = "idle"
  /\ calls < MaxCalls
  /\ calls' = calls + 1
  /\ callPc' = [callPc EXCEPT ![c] = "lock"]
  /\ err' = [err EXCEPT ![c] = NoErr]
  /\ ret' = [ret EXCEPT ![c] = "none"]
  /\ probe' = [probe EXCEPT ![c] = FALSE]
  /\ fnRuns' = [fnRuns EXCEPT ![c] = 0]
  /\ tmp' = [tmp EXCEPT ![c] = 0]
  /\ UNCHANGED <<mu, state, failures, threshold, lastFailTime, timeout, now,
                 streak, probeAdmittedAt, lastExec,
                 stdout>>

\* cb.mu.Lock()
Lock(c) ==
  /\ callPc[c] = "lock"
  /\ MutexFree(mu)
  /\ mu' = c
  /\ callPc' = [callPc EXCEPT ![c] = "switch"]
  /\ UNCHANGED <<state, failures, threshold, lastFailTime, timeout, now, err,
                 ret, tmp, calls, streak, probe, probeAdmittedAt, lastExec,
                 fnRuns,
                 stdout>>

\* (variant that releases the mutex before calling fn)
SwitchReleasing(c) ==
  /\ callPc[c] = "switch"
  /\ IF state = Open /\ ~TimeoutElapsed(lastFailTime, timeout)
       THEN /\ ret' = [ret EXCEPT ![c] = ErrOpen]
            /\ callPc' = [callPc EXCEPT ![c] = "unlock"]
            /\ UNCHANGED <<mu, state, probe, probeAdmittedAt, fnRuns,
                           stdout>>
       ELSE /\ state' = IF state = Open THEN HalfOpen ELSE state
            /\ probe' = [probe EXCEPT ![c] = (state = Open)]
            /\ probeAdmittedAt' = IF state = Open THEN now ELSE probeAdmittedAt
            /\ fnRuns' = [fnRuns EXCEPT ![c] = @ + 1]
            /\ callPc' = [callPc EXCEPT ![c] = "fn"]
            /\ stdout' = IF state = Open
                           THEN Append(stdout, HalfOpenLine)
                           ELSE stdout
            /\ mu' = 0
            /\ UNCHANGED ret
  /\ UNCHANGED <<failures, threshold, lastFailTime, timeout, now, err,
                 tmp, calls, streak, lastExec>>

\* (variant that lets the call through without entering HalfOpen)
SwitchNoHalfOpen(c) ==
  /\ callPc[c] = "switch"
  /\ IF state = Open /\ ~TimeoutElapsed(lastFailTime, timeout)
       THEN /\ ret' = [ret EXCEPT ![c] = ErrOpen]
            /\ callPc' = [callPc EXCEPT ![c] = "unlock"]
            /\ UNCHANGED <<probe, probeAdmittedAt, fnRuns>>
       ELSE /\ probe' = [probe EXCEPT ![c] = (state = Open)]
            /\ probeAdmittedAt' = IF state = Open THEN now ELSE probeAdmittedAt
            /\ fnRuns' = [fnRuns EXCEPT ![c] = @ + 1]
            /\ callPc' = [callPc EXCEPT ![c] = "fn"]
            /\ UNCHANGED ret
  /\ UNCHANGED <<mu, state, failures, threshold, lastFailTime, timeout, now,
                 err, tmp, calls, streak, lastExec, stdout>>

\* (variant that restarts the timeout whenever it rejects a call)
SwitchRestamping(c) ==
  /\ callPc[c] = "switch"
  /\ IF state = Open /\ ~TimeoutElapsed(lastFailTime, timeout)
       THEN /\ ret' = [ret EXCEPT ![c] = ErrOpen]
            /\ callPc' = [callPc EXCEPT ![c] = "unlock"]
            /\ lastFailTime' = now
            /\ UNCHANGED <<state, probe, probeAdmittedAt, fnRuns,
                           stdout>>
       ELSE /\ state' = IF state = Open THEN HalfOpen ELSE state
            /\ probe' = [probe EXCEPT ![c] = (state = Open)]
            /\ probeAdmittedAt' = IF state = Open THEN now ELSE probeAdmittedAt
            /\ fnRuns' = [fnRuns EXCEPT ![c] = @ + 1]
            /\ callPc' = [callPc EXCEPT ![c] = "fn"]
            /\ stdout' = IF state = Open
                           THEN Append(stdout, HalfOpenLine)
                           ELSE stdout
            /\ UNCHANGED <<ret, lastFailTime>>
  /\ UNCHANGED <<mu, failures, threshold, timeout, now, err,
                 tmp, calls, streak, lastExec>>

\* switch cb.state { case Open: ... case HalfOpen: }, then fn is called
Switch(c) ==
  /\ callPc[c] = "switch"
  /\ IF state = Open /\ ~TimeoutElapsed(lastFailTime, timeout)
       THEN \* return fmt.Errorf("circuit breaker open")
            /\ ret' = [ret EXCEPT ![c] = ErrOpen]
            /\ callPc' = [callPc EXCEPT ![c] = "unlock"]
            /\ UNCHANGED <<state, probe, probeAdmittedAt, fnRuns,
                           stdout>>
       ELSE /\ state' = IF state = Open THEN HalfOpen ELSE state
            /\ probe' = [probe EXCEPT ![c] = (state = Open)]
            /\ probeAdmittedAt' = IF state = Open THEN now ELSE probeAdmittedAt
            /\ fnRuns' = [fnRuns EXCEPT ![c] = @ + 1]
            /\ callPc' = [callPc EXCEPT ![c] = "fn"]
            /\ stdout' = IF state = Open
                           THEN Append(stdout, HalfOpenLine)
                           ELSE stdout
            /\ UNCHANGED ret
  /\ UNCHANGED <<mu, failures, threshold, lastFailTime, timeout, now, err,
                 tmp, calls, streak, lastExec>>

\* err := fn() returns; the outcome is the operation's
FnReturn(c) ==
  /\ callPc[c] = "fn"
  /\ \E outcome \in {NoErr} \cup OpErrors :
       /\ err' = [err EXCEPT ![c] = outcome]
       /\ streak' = IF outcome = NoErr THEN 0 ELSE streak + 1
       /\ callPc' = [callPc EXCEPT ![c] =
                       IF outcome = NoErr THEN "reset" ELSE "incrRead"]
  /\ UNCHANGED <<mu, state, failures, threshold, lastFailTime, timeout, now,
                 ret, tmp, calls, probe, probeAdmittedAt, lastExec, fnRuns,
                 stdout>>

\* cb.failures++ : the read
IncrRead(c) ==
  /\ callPc[c] = "incrRead"
  /\ tmp' = [tmp EXCEPT ![c] = failures]
  /\ callPc' = [callPc EXCEPT ![c] = "incrWrite"]
  /\ UNCHANGED <<mu, state, failures, threshold, lastFailTime, timeout, now,
                 err, ret, calls, streak, probe, probeAdmittedAt, lastExec,
                 fnRuns,
                 stdout>>

\* cb.failures++ : the write
IncrWrite(c) ==
  /\ callPc[c] = "incrWrite"
  /\ failures' = tmp[c] + 1
  /\ callPc' = [callPc EXCEPT ![c] = "stamp"]
  /\ UNCHANGED <<mu, state, threshold, lastFailTime, timeout, now, err, ret,
                 tmp, calls, streak, probe, probeAdmittedAt, lastExec,
                 fnRuns,
                 stdout>>

\* (variant that records the failure time only while Closed)
StampOnlyWhenClosed(c) ==
  /\ callPc[c] = "stamp"
  /\ lastFailTime' = IF state = Closed THEN now ELSE lastFailTime
  /\ callPc' = [callPc EXCEPT ![c] = "trip"]
  /\ UNCHANGED <<mu, state, failures, threshold, timeout, now, err, ret, tmp,
                 calls, streak, probe, probeAdmittedAt, lastExec, fnRuns,
                 stdout>>

\* cb.lastFailTime = time.Now()
Stamp(c) ==
  /\ callPc[c] = "stamp"
  /\ lastFailTime' = now
  /\ callPc' = [callPc EXCEPT ![c] = "trip"]
  /\ UNCHANGED <<mu, state, failures, threshold, timeout, now, err, ret, tmp,
                 calls, streak, probe, probeAdmittedAt, lastExec, fnRuns,
                 stdout>>

\* (variant that returns the rejection error when it opens the breaker)
TripReturnsOpenError(c) ==
  /\ callPc[c] = "trip"
  /\ state' = IF Trips(failures, threshold, state) THEN Open ELSE state
  /\ stdout' = IF Trips(failures, threshold, state)
                 THEN Append(stdout, OpenedLine(failures))
                 ELSE stdout
  /\ ret' = [ret EXCEPT ![c] =
               IF Trips(failures, threshold, state) THEN ErrOpen ELSE err[c]]
  /\ lastExec' = IF probe[c] THEN "probeFail" ELSE "fail"
  /\ callPc' = [callPc EXCEPT ![c] = "unlock"]
  /\ UNCHANGED <<mu, failures, threshold, lastFailTime, timeout, now, err,
                 tmp, calls, streak, probe, probeAdmittedAt, fnRuns>>

\* (variant that lengthens the timeout each time it opens the breaker)
TripBacksOff(c) ==
  /\ callPc[c] = "trip"
  /\ state' = IF Trips(failures, threshold, state) THEN Open ELSE state
  /\ timeout' = IF Trips(failures, threshold, state)
                  THEN timeout + 1
                  ELSE timeout
  /\ stdout' = IF Trips(failures, threshold, state)
                 THEN Append(stdout, OpenedLine(failures))
                 ELSE stdout
  /\ ret' = [ret EXCEPT ![c] = err[c]]
  /\ lastExec' = IF probe[c] THEN "probeFail" ELSE "fail"
  /\ callPc' = [callPc EXCEPT ![c] = "unlock"]
  /\ UNCHANGED <<mu, failures, threshold, lastFailTime, now, err, tmp, calls,
                 streak, probe, probeAdmittedAt, fnRuns>>

\* (variant that prints a line for every failure)
TripLogsEveryFailure(c) ==
  /\ callPc[c] = "trip"
  /\ state' = IF Trips(failures, threshold, state) THEN Open ELSE state
  /\ stdout' = Append(stdout, OpenedLine(failures))
  /\ ret' = [ret EXCEPT ![c] = err[c]]
  /\ lastExec' = IF probe[c] THEN "probeFail" ELSE "fail"
  /\ callPc' = [callPc EXCEPT ![c] = "unlock"]
  /\ UNCHANGED <<mu, failures, threshold, lastFailTime, timeout, now, err,
                 tmp, calls, streak, probe, probeAdmittedAt, fnRuns>>

\* (variant that opens the breaker from Closed only)
TripOnlyWhenClosed(c) ==
  /\ callPc[c] = "trip"
  /\ state' = IF state = Closed /\ failures >= threshold THEN Open ELSE state
  /\ stdout' = IF state = Closed /\ failures >= threshold
                 THEN Append(stdout, OpenedLine(failures))
                 ELSE stdout
  /\ ret' = [ret EXCEPT ![c] = err[c]]
  /\ lastExec' = IF probe[c] THEN "probeFail" ELSE "fail"
  /\ callPc' = [callPc EXCEPT ![c] = "unlock"]
  /\ UNCHANGED <<mu, failures, threshold, lastFailTime, timeout, now, err,
                 tmp, calls, streak, probe, probeAdmittedAt, fnRuns>>

\* (variant that clears the counter when it opens the breaker)
TripResetsCounter(c) ==
  /\ callPc[c] = "trip"
  /\ state' = IF Trips(failures, threshold, state) THEN Open ELSE state
  /\ failures' = IF Trips(failures, threshold, state) THEN 0 ELSE failures
  /\ stdout' = IF Trips(failures, threshold, state)
                 THEN Append(stdout, OpenedLine(failures))
                 ELSE stdout
  /\ ret' = [ret EXCEPT ![c] = err[c]]
  /\ lastExec' = IF probe[c] THEN "probeFail" ELSE "fail"
  /\ callPc' = [callPc EXCEPT ![c] = "unlock"]
  /\ UNCHANGED <<mu, threshold, lastFailTime, timeout, now, err,
                 tmp, calls, streak, probe, probeAdmittedAt, fnRuns>>

\* if cb.failures >= cb.threshold || cb.state == HalfOpen { cb.state = Open }
\* return err
Trip(c) ==
  /\ callPc[c] = "trip"
  /\ state' = IF Trips(failures, threshold, state) THEN Open ELSE state
  /\ stdout' = IF Trips(failures, threshold, state)
                 THEN Append(stdout, OpenedLine(failures))
                 ELSE stdout
  /\ ret' = [ret EXCEPT ![c] = err[c]]
  /\ lastExec' = IF probe[c] THEN "probeFail" ELSE "fail"
  /\ callPc' = [callPc EXCEPT ![c] = "unlock"]
  /\ UNCHANGED <<mu, failures, threshold, lastFailTime, timeout, now, err,
                 tmp, calls, streak, probe, probeAdmittedAt, fnRuns>>

\* (variant that resets the counter and leaves the state alone)
ResetCounterOnly(c) ==
  /\ callPc[c] = "reset"
  /\ failures' = 0
  /\ ret' = [ret EXCEPT ![c] = NoErr]
  /\ lastExec' = IF probe[c] THEN "probeOk" ELSE "ok"
  /\ callPc' = [callPc EXCEPT ![c] = "unlock"]
  /\ UNCHANGED <<mu, state, threshold, lastFailTime, timeout, now, err, tmp,
                 calls, streak, probe, probeAdmittedAt, fnRuns,
                 stdout>>

\* (variant that closes the breaker and keeps the counter)
ResetStateOnly(c) ==
  /\ callPc[c] = "reset"
  /\ state' = Closed
  /\ ret' = [ret EXCEPT ![c] = NoErr]
  /\ lastExec' = IF probe[c] THEN "probeOk" ELSE "ok"
  /\ callPc' = [callPc EXCEPT ![c] = "unlock"]
  /\ UNCHANGED <<mu, failures, threshold, lastFailTime, timeout, now, err,
                 tmp, calls, streak, probe, probeAdmittedAt, fnRuns, stdout>>

\* cb.failures = 0; cb.state = Closed; return nil
Reset(c) ==
  /\ callPc[c] = "reset"
  /\ failures' = 0
  /\ state' = Closed
  /\ ret' = [ret EXCEPT ![c] = NoErr]
  /\ lastExec' = IF probe[c] THEN "probeOk" ELSE "ok"
  /\ callPc' = [callPc EXCEPT ![c] = "unlock"]
  /\ UNCHANGED <<mu, threshold, lastFailTime, timeout, now, err, tmp, calls,
                 streak, probe, probeAdmittedAt, fnRuns,
                 stdout>>

\* defer cb.mu.Unlock(); Call returns to its caller
Unlock(c) ==
  /\ callPc[c] = "unlock"
  /\ mu' = 0
  /\ callPc' = [callPc EXCEPT ![c] = "idle"]
  \* the call's locals are gone; its return value stays with the caller
  /\ err' = [err EXCEPT ![c] = NoErr]
  /\ tmp' = [tmp EXCEPT ![c] = 0]
  /\ probe' = [probe EXCEPT ![c] = FALSE]
  /\ fnRuns' = [fnRuns EXCEPT ![c] = 0]
  /\ UNCHANGED <<state, failures, threshold, lastFailTime, timeout, now, ret,
                 calls, streak, probeAdmittedAt, lastExec, stdout>>

\* time passes
Tick ==
  /\ now < Epoch + MaxTicks
  /\ now' = now + 1
  /\ UNCHANGED <<mu, state, failures, threshold, lastFailTime, timeout,
                 callPc, err, ret, tmp, calls, streak, probe,
                 probeAdmittedAt, lastExec, fnRuns,
                 stdout>>

(***************************************************************************)
(* Pipeline (06_concurrency): generate -> square -> addTen -> main.  The   *)
(* three channels are unbuffered: a send and the matching receive happen   *)
(* together, as one step of the sender and the receiver.                   *)
(***************************************************************************)

\* Bounds of the generated inputs: values -1..MaxNum, at most MaxNums of them.
MaxNum == 2

MaxNums == 3

NumValues == (0 - 1)..MaxNum

SeqsUpTo(S, n) == UNION {[1..m -> S] : m \in 0..n}

\* generate(1, 2, 3, 4, 5)
DemoNums == <<1, 2, 3, 4, 5>>

\* out <- n * n
Square(n) == n * n

\* out <- n + 10
AddTen(n) == n + 10

PipeRunning == pipePanicked = "none"

\* addTen(square(generate(nums...))): three goroutines started, main about
\* to range over the last channel.
PipeInit ==
  /\ nums \in SeqsUpTo(NumValues, MaxNums) \cup {DemoNums}
  /\ genPc = "loop"
  /\ genI = 1
  /\ ch1Closed = FALSE
  /\ sqPc = "range"
  /\ sqVal = 0
  /\ ch2Closed = FALSE
  /\ addPc = "range"
  /\ addVal = 0
  /\ ch3Closed = FALSE
  /\ consPc = "range"
  /\ consVal = 0
  /\ printed = <<>>
  /\ pipePanicked = "none"

\* generate: out <- n, received by square's `for n := range in`
GenSend ==
  /\ PipeRunning
  /\ genPc = "loop"
  /\ genI <= Len(nums)
  /\ IF ch1Closed
       THEN /\ pipePanicked' = "send on closed channel"
            /\ UNCHANGED <<genI, sqPc, sqVal>>
       ELSE /\ sqPc = "range"
            /\ sqVal' = nums[genI]
            /\ sqPc' = "send"
            /\ genI' = genI + 1
            /\ UNCHANGED pipePanicked
  /\ UNCHANGED <<nums, genPc, ch1Closed, ch2Closed, addPc, addVal, ch3Closed,
                 consPc, consVal, printed>>

\* generate: close(out), after the loop
GenClose ==
  /\ PipeRunning
  /\ genPc = "loop"
  /\ genI > Len(nums)
  /\ IF ch1Closed
       THEN /\ pipePanicked' = "close of closed channel"
            /\ UNCHANGED <<ch1Closed, genPc>>
       ELSE /\ ch1Closed' = TRUE
            /\ genPc' = "done"
            /\ UNCHANGED pipePanicked
  /\ UNCHANGED <<nums, genI, sqPc, sqVal, ch2Closed, addPc, addVal, ch3Closed,
                 consPc, consVal, printed>>

\* square: `for n := range in` ends, in is closed (and, unbuffered, empty)
SqRangeEnd ==
  /\ PipeRunning
  /\ sqPc = "range"
  /\ RangeEnds(<<>>, ch1Closed)
  /\ sqPc' = "close"
  /\ UNCHANGED <<nums, genPc, genI, ch1Closed, sqVal, ch2Closed, addPc,
                 addVal, ch3Closed, consPc, consVal, printed, pipePanicked>>

\* square: out <- n * n, received by addTen's `for n := range in`
SqSend ==
  /\ PipeRunning
  /\ sqPc = "send"
  /\ IF ch2Closed
       THEN /\ pipePanicked' = "send on closed channel"
            /\ UNCHANGED <<sqPc, sqVal, addPc, addVal>>
       ELSE /\ addPc = "range"
            /\ addVal' = Square(sqVal)
            /\ addPc' = "send"
            /\ sqPc' = "range"
            /\ sqVal' = 0
            /\ UNCHANGED pipePanicked
  /\ UNCHANGED <<nums, genPc, genI, ch1Closed, ch2Closed, ch3Closed, consPc,
                 consVal, printed>>

\* (variant of square that closes its output as soon as it is idle)
SqCloseEarly ==
  /\ PipeRunning
  /\ sqPc \in {"range", "close"}
  /\ IF ch2Closed
       THEN /\ pipePanicked' = "close of closed channel"
            /\ UNCHANGED <<ch2Closed, sqPc>>
       ELSE /\ ch2Closed' = TRUE
            /\ sqPc' = "done"
            /\ UNCHANGED pipePanicked
  /\ UNCHANGED <<nums, genPc, genI, ch1Closed, sqVal, addPc, addVal,
                 ch3Closed, consPc, consVal, printed>>

\* square: close(out), after the loop
SqClose ==
  /\ PipeRunning
  /\ sqPc = "close"
  /\ IF ch2Closed
       THEN /\ pipePanicked' = "close of closed channel"
            /\ UNCHANGED <<ch2Closed, sqPc>>
       ELSE /\ ch2Closed' = TRUE
            /\ sqPc' = "done"
            /\ UNCHANGED pipePanicked
  /\ UNCHANGED <<nums, genPc, genI, ch1Closed, sqVal, addPc, addVal,
                 ch3Closed, consPc, consVal, printed>>

\* addTen: `for n := range in` ends
AddRangeEnd ==
  /\ PipeRunning
  /\ addPc = "range"
  /\ RangeEnds(<<>>, ch2Closed)
  /\ addPc' = "close"
  /\ UNCHANGED <<nums, genPc, genI, ch1Closed, sqPc, sqVal, ch2Closed,
                 addVal, ch3Closed, consPc, consVal, printed, pipePanicked>>

\* addTen: out <- n + 10, received by main's `for v := range pipeline`
AddSend ==
  /\ PipeRunning
  /\ addPc = "send"
  /\ IF ch3Closed
       THEN /\ pipePanicked' = "send on closed channel"
            /\ UNCHANGED <<addPc, addVal, consPc, consVal>>
       ELSE /\ consPc = "range"
            /\ consVal' = AddTen(addVal)
            /\ consPc' = "print"
            /\ addPc' = "range"
            /\ addVal' = 0
            /\ UNCHANGED pipePanicked
  /\ UNCHANGED <<nums, genPc, genI, ch1Closed, sqPc, sqVal, ch2Closed,
                 ch3Closed, printed>>

\* addTen: close(out), after the loop
AddClose ==
  /\ PipeRunning
  /\ addPc = "close"
  /\ IF ch3Closed
       THEN /\ pipePanicked' = "close of closed channel"
            /\ UNCHANGED <<ch3Closed, addPc>>
       ELSE /\ ch3Closed' = TRUE
            /\ addPc' = "done"
            /\ UNCHANGED pipePanicked
  /\ UNCHANGED <<nums, genPc, genI, ch1Closed, sqPc, sqVal, ch2Closed,
                 addVal, consPc, consVal, printed>>

\* main: fmt.Print(v, " ")
ConsPrint ==
  /\ PipeRunning
  /\ consPc = "print"
  /\ printed' = Append(printed, consVal)
  /\ consPc' = "range"
  /\ consVal' = 0
  /\ UNCHANGED <<nums, genPc, genI, ch1Closed, sqPc, sqVal, ch2Closed, addPc,
                 addVal, ch3Closed, pipePanicked>>

\* main: `for v := range pipeline` ends
ConsRangeEnd ==
  /\ PipeRunning
  /\ consPc = "range"
  /\ RangeEnds(<<>>, ch3Closed)
  /\ consPc' = "done"
  /\ UNCHANGED <<nums, genPc, genI, ch1Closed, sqPc, sqVal, ch2Closed, addPc,
                 addVal, ch3Closed, consVal, printed, pipePanicked>>

\* No pipeline has been built.
PipeIdle ==
  /\ nums = <<>>
  /\ genPc = "loop"
  /\ genI = 1
  /\ ch1Closed = FALSE
  /\ sqPc = "range"
  /\ sqVal = 0
  /\ ch2Closed = FALSE
  /\ addPc = "range"
  /\ addVal = 0
  /\ ch3Closed = FALSE
  /\ consPc = "range"
  /\ consVal = 0
  /\ printed = <<>>
  /\ pipePanicked = "none"

(***************************************************************************)
(* Done channel (06_concurrency): producer and SECTION 7 of main.  Time is *)
(* counted in units of 10 ms.  time.Sleep(d) returns when d has passed;    *)
(* the clock advances only when no goroutine can take a step, so a sleeper *)
(* runs the moment it wakes: the schedules of the model are those of a     *)
(* machine that is never late.  A select with several ready cases takes    *)
(* any one of them.                                                        *)
(***************************************************************************)

\* outCh := make(chan int, 10)
OutCap == 10

\* time.Sleep(10 * time.Millisecond) in producer
ProducerPause == 1

\* time.Sleep(50 * time.Millisecond) before close(doneCh)
CancelAfter == 5

\* time.Sleep(20 * time.Millisecond) before close(outCh)
CloseAfter == 2

DoneRunning == donePanicked = "none"

\* doneCh, outCh made; `go producer(doneCh, outCh)` not yet executed
DoneInit ==
  /\ dNow = 0
  /\ doneClosed = FALSE
  /\ outBuf = <<>>
  /\ outClosed = FALSE
  /\ prodPc = "unstarted"
  /\ prodI = 0
  /\ prodWake = 0
  /\ dmPc = "go"
  /\ dmWake = 0
  /\ count = 0
  /\ donePanicked = "none"

\* go producer(doneCh, outCh); time.Sleep(50 * time.Millisecond)
DmGo ==
  /\ DoneRunning
  /\ dmPc = "go"
  /\ prodPc' = "select"
  /\ dmPc' = "sleep1"
  /\ dmWake' = dNow + CancelAfter
  /\ UNCHANGED <<dNow, doneClosed, outBuf, outClosed, prodI, prodWake, count,
                 donePanicked>>

\* main's time.Sleep(50 * time.Millisecond) returns
DmWake1 ==
  /\ DoneRunning
  /\ dmPc = "sleep1"
  /\ dNow >= dmWake
  /\ dmPc' = "closeDone"
  /\ UNCHANGED <<dNow, doneClosed, outBuf, outClosed, prodPc, prodI,
                 prodWake, dmWake, count, donePanicked>>

\* close(doneCh); time.Sleep(20 * time.Millisecond)
DmCloseDone ==
  /\ DoneRunning
  /\ dmPc = "closeDone"
  /\ IF doneClosed
       THEN /\ donePanicked' = "close of closed channel"
            /\ UNCHANGED <<doneClosed, dmPc, dmWake>>
       ELSE /\ doneClosed' = TRUE
            /\ dmPc' = "sleep2"
            /\ dmWake' = dNow + CloseAfter
            /\ UNCHANGED donePanicked
  /\ UNCHANGED <<dNow, outBuf, outClosed, prodPc, prodI, prodWake, count>>

\* main's time.Sleep(20 * time.Millisecond) returns
DmWake2 ==
  /\ DoneRunning
  /\ dmPc = "sleep2"
  /\ dNow >= dmWake
  /\ dmPc' = "closeOut"
  /\ UNCHANGED <<dNow, doneClosed, outBuf, outClosed, prodPc, prodI,
                 prodWake, dmWake, count, donePanicked>>

\* close(outCh); count := 0
DmCloseOut ==
  /\ DoneRunning
  /\ dmPc = "closeOut"
  /\ IF outClosed
       THEN /\ donePanicked' = "close of closed channel"
            /\ UNCHANGED <<outClosed, dmPc>>
       ELSE /\ outClosed' = TRUE
            /\ dmPc' = "range"
            /\ UNCHANGED donePanicked
  /\ UNCHANGED <<dNow, doneClosed, outBuf, prodPc, prodI, prodWake, dmWake,
                 count>>

\* for range outCh { count++ }: one iteration
DmCount ==
  /\ DoneRunning
  /\ dmPc = "range"
  /\ outBuf # <<>>
  /\ outBuf' = RecvRest(outBuf)
  /\ count' = count + 1
  /\ UNCHANGED <<dNow, doneClosed, outClosed, prodPc, prodI, prodWake, dmPc,
                 dmWake, donePanicked>>

\* for range outCh ends; main prints the count
DmRangeEnd ==
  /\ DoneRunning
  /\ dmPc = "range"
  /\ RangeEnds(outBuf, outClosed)
  /\ dmPc' = "done"
  /\ UNCHANGED <<dNow, doneClosed, outBuf, outClosed, prodPc, prodI,
                 prodWake, dmWake, count, donePanicked>>

\* select { case <-done: return }: ready once doneCh is closed
ProdSelectDone ==
  /\ DoneRunning
  /\ prodPc = "select"
  /\ doneClosed
  /\ prodPc' = "done"
  /\ UNCHANGED <<dNow, doneClosed, outBuf, outClosed, prodI, prodWake, dmPc,
                 dmWake, count, donePanicked>>

\* select { case out <- i: time.Sleep(10 * time.Millisecond) }: ready when
\* outCh has room, and when outCh is closed (the send then panics)
ProdSelectSend ==
  /\ DoneRunning
  /\ prodPc = "select"
  /\ IF outClosed
       THEN /\ donePanicked' = "send on closed channel"
            /\ UNCHANGED <<outBuf, prodPc, prodWake>>
       ELSE /\ CanSend(outBuf, OutCap)
            /\ outBuf' = Append(outBuf, prodI)
            /\ prodPc' = "sleep"
            /\ prodWake' = dNow + ProducerPause
            /\ UNCHANGED donePanicked
  /\ UNCHANGED <<dNow, doneClosed, outClosed, prodI, dmPc, dmWake, count>>

\* the producer's sleep returns; i++
ProdWake ==
  /\ DoneRunning
  /\ prodPc = "sleep"
  /\ dNow >= prodWake
  /\ prodI' = prodI + 1
  /\ prodPc' = "select"
  /\ UNCHANGED <<dNow, doneClosed, outBuf, outClosed, prodWake, dmPc, dmWake,
                 count, donePanicked>>

ProdRunnable ==
  \/ prodPc = "select" /\ (doneClosed \/ outClosed \/ CanSend(outBuf, OutCap))
  \/ prodPc = "sleep" /\ dNow >= prodWake

DmRunnable ==
  \/ dmPc \in {"go", "closeDone", "closeOut"}
  \/ dmPc \in {"sleep1", "sleep2"} /\ dNow >= dmWake
  \/ dmPc = "range" /\ (outBuf # <<>> \/ outClosed)

\* time passes while somebody sleeps and nobody can run
DoneTick ==
  /\ DoneRunning
  /\ ~ProdRunnable
  /\ ~DmRunnable
  /\ prodPc = "sleep" \/ dmPc \in {"sleep1", "sleep2"}
  /\ dNow' = dNow + 1
  /\ UNCHANGED <<doneClosed, outBuf, outClosed, prodPc, prodI, prodWake,
                 dmPc, dmWake, count, donePanicked>>

\* SECTION 7 has not started.
DoneIdle ==
  /\ dNow = 0
  /\ doneClosed = FALSE
  /\ outBuf = <<>>
  /\ outClosed = FALSE
  /\ prodPc = "unstarted"
  /\ prodI = 0
  /\ prodWake = 0
  /\ dmPc = "go"
  /\ dmWake = 0
  /\ count = 0
  /\ donePanicked = "none"

(***************************************************************************)
(* SafeCounter (06_concurrency): Increment, Value and SECTION 8 of main.   *)
(***************************************************************************)

\* Bound on K, the number of goroutines (1000 in the demo).
MaxInc == 3

Incrementers == 1..numInc

\* The holder's name when main holds counter.mu.
MainHolder == numInc + 1

\* counter := &SafeCounter{}; var wg2 sync.WaitGroup
CtrInit ==
  /\ numInc \in 0..MaxInc
  /\ scMu = 0
  /\ scCount = 0
  /\ incPc = [k \in 1..numInc |-> "unstarted"]
  /\ incTmp = [k \in 1..numInc |-> 0]
  /\ wg2 = 0
  /\ smPc = "spawn"
  /\ smI = 0
  /\ smValue = 0 - 1

\* for i := 0; i < 1000; i++ { wg2.Add(1); go func() { ... }() }
SmSpawn ==
  /\ smPc = "spawn"
  /\ smI < numInc
  /\ wg2' = wg2 + 1
  /\ incPc' = [incPc EXCEPT ![smI + 1] = "lock"]
  /\ smI' = smI + 1
  /\ UNCHANGED <<numInc, scMu, scCount, incTmp, smPc, smValue>>

\* the loop has ended; wg2.Wait()
SmWait ==
  /\ smPc = "spawn"
  /\ smI >= numInc
  /\ WaitReturns(wg2)
  /\ smPc' = "valueLock"
  /\ UNCHANGED <<numInc, scMu, scCount, incPc, incTmp, wg2, smI, smValue>>

\* counter.Value(): c.mu.Lock()
SmValueLock ==
  /\ smPc = "valueLock"
  /\ MutexFree(scMu)
  /\ scMu' = MainHolder
  /\ smPc' = "valueRead"
  /\ UNCHANGED <<numInc, scCount, incPc, incTmp, wg2, smI, smValue>>

\* counter.Value(): return c.count
SmValueRead ==
  /\ smPc = "valueRead"
  /\ smValue' = scCount
  /\ smPc' = "valueUnlock"
  /\ UNCHANGED <<numInc, scMu, scCount, incPc, incTmp, wg2, smI>>

\* counter.Value(): defer c.mu.Unlock(); main prints the value
SmValueUnlock ==
  /\ smPc = "valueUnlock"
  /\ scMu' = 0
  /\ smPc' = "done"
  /\ UNCHANGED <<numInc, scCount, incPc, incTmp, wg2, smI, smValue>>

\* (variant of Lock that does not wait for the holder)
IncLockBarging(k) ==
  /\ incPc[k] = "lock"
  /\ scMu' = k
  /\ incPc' = [incPc EXCEPT ![k] = "read"]
  /\ UNCHANGED <<numInc, scCount, incTmp, wg2, smPc, smI, smValue>>

\* Increment: c.mu.Lock()
IncLock(k) ==
  /\ incPc[k] = "lock"
  /\ MutexFree(scMu)
  /\ scMu' = k
  /\ incPc' = [incPc EXCEPT ![k] = "read"]
  /\ UNCHANGED <<numInc, scCount, incTmp, wg2, smPc, smI, smValue>>

\* Increment: c.count++ : the read
IncRead(k) ==
  /\ incPc[k] = "read"
  /\ incTmp' = [incTmp EXCEPT ![k] = scCount]
  /\ incPc' = [incPc EXCEPT ![k] = "write"]
  /\ UNCHANGED <<numInc, scMu, scCount, wg2, smPc, smI, smValue>>

\* Increment: c.count++ : the write
IncWrite(k) ==
  /\ incPc[k] = "write"
  /\ scCount' = incTmp[k] + 1
  /\ incPc' = [incPc EXCEPT ![k] = "unlock"]
  /\ UNCHANGED <<numInc, scMu, incTmp, wg2, smPc, smI, smValue>>

\* Increment: defer c.mu.Unlock()
IncUnlock(k) ==
  /\ incPc[k] = "unlock"
  /\ scMu' = 0
  /\ incPc' = [incPc EXCEPT ![k] = "wgdone"]
  /\ UNCHANGED <<numInc, scCount, incTmp, wg2, smPc, smI, smValue>>

\* defer wg2.Done()
IncWgDone(k) ==
  /\ incPc[k] = "wgdone"
  /\ wg2' = wg2 - 1
  /\ incPc' = [incPc EXCEPT ![k] = "done"]
  /\ UNCHANGED <<numInc, scMu, scCount, incTmp, smPc, smI, smValue>>

\* SECTION 8 has not started.
CtrIdle ==
  /\ numInc = 0
  /\ scMu = 0
  /\ scCount = 0
  /\ incPc = <<>>
  /\ incTmp = <<>>
  /\ wg2 = 0
  /\ smPc = "spawn"
  /\ smI = 0
  /\ smValue = 0 - 1

(***************************************************************************)
(* slowDBQuery (10_advanced_patterns).  Calls are independent: each has    *)
(* its own context, its own resultCh and its own goroutine.                *)
(***************************************************************************)

\* Bound on the number of calls in a run.
NumQueries == 2

Queries == 1..NumQueries

\* The queries of the demo.
QueryTexts == {"SELECT * FROM users", "SELECT * FROM logs"}

\* ctx.Err() of a context that is done
CtxErrors == {"context canceled", "context deadline exceeded"}

\* resultCh := make(chan string, 1)
ResultCap == 1

\* "result: " + query; a string is the sequence of its pieces, "" is <<>>
ResultOf(query) == <<"result: ", query>>

\* Before any call: each call's query is chosen, its context is live (it
\* may finish before the call is made).
DBInit ==
  /\ dbQuery \in [Queries -> QueryTexts]
  /\ ctxErr = [q \in Queries |-> "nil"]
  /\ resultCh = [q \in Queries |-> <<>>]
  /\ helperPc = [q \in Queries |-> "unstarted"]
  /\ helperSends = [q \in Queries |-> 0]
  /\ queryPc = [q \in Queries |-> "idle"]
  /\ qResult = [q \in Queries |-> <<>>]
  /\ qErr = [q \in Queries |-> "none"]

\* slowDBQuery(ctx, query): resultCh made, the goroutine started
QueryCall(q) ==
  /\ queryPc[q] = "idle"
  /\ helperPc' = [helperPc EXCEPT ![q] = "sleep"]
  /\ queryPc' = [queryPc EXCEPT ![q] = "select"]
  /\ UNCHANGED <<dbQuery, ctxErr, resultCh, helperSends, qResult, qErr>>

\* the context is cancelled or its deadline passes
CtxFinish(q) ==
  /\ ctxErr[q] = "nil"
  /\ \E e \in CtxErrors : ctxErr' = [ctxErr EXCEPT ![q] = e]
  /\ UNCHANGED <<dbQuery, resultCh, helperPc, helperSends, queryPc, qResult,
                 qErr>>

\* goroutine: time.Sleep(200 * time.Millisecond) returns
HelperWake(q) ==
  /\ helperPc[q] = "sleep"
  /\ helperPc' = [helperPc EXCEPT ![q] = "send"]
  /\ UNCHANGED <<dbQuery, ctxErr, resultCh, helperSends, queryPc, qResult,
                 qErr>>

\* (variant for an unbuffered resultCh: the send needs slowDBQuery to be
\* waiting in its select, and hands the value over)
HelperSendUnbuffered(q) ==
  /\ helperPc[q] = "send"
  /\ queryPc[q] = "select"
  /\ qResult' = [qResult EXCEPT ![q] = ResultOf(dbQuery[q])]
  /\ qErr' = [qErr EXCEPT ![q] = "nil"]
  /\ queryPc' = [queryPc EXCEPT ![q] = "returned"]
  /\ helperSends' = [helperSends EXCEPT ![q] = @ + 1]
  /\ helperPc' = [helperPc EXCEPT ![q] = "done"]
  /\ UNCHANGED <<dbQuery, ctxErr, resultCh>>

\* goroutine: resultCh <- "result: " + query; the goroutine ends
HelperSend(q) ==
  /\ helperPc[q] = "send"
  /\ CanSend(resultCh[q], ResultCap)
  /\ resultCh' = [resultCh EXCEPT ![q] = Append(@, ResultOf(dbQuery[q]))]
  /\ helperSends' = [helperSends EXCEPT ![q] = @ + 1]
  /\ helperPc' = [helperPc EXCEPT ![q] = "done"]
  /\ UNCHANGED <<dbQuery, ctxErr, queryPc, qResult, qErr>>

\* select { case result := <-resultCh: return result, nil }
QueryRecv(q) ==
  /\ queryPc[q] = "select"
  /\ resultCh[q] # <<>>
  /\ qResult' = [qResult EXCEPT ![q] = RecvValue(resultCh[q])]
  /\ qErr' = [qErr EXCEPT ![q] = "nil"]
  /\ resultCh' = [resultCh EXCEPT ![q] = RecvRest(@)]
  /\ queryPc' = [queryPc EXCEPT ![q] = "returned"]
  /\ UNCHANGED <<dbQuery, ctxErr, helperPc, helperSends>>

\* select { case <-ctx.Done(): return "", ctx.Err() }
QueryCtxDone(q) ==
  /\ queryPc[q] = "select"
  /\ ctxErr[q] # "nil"
  /\ qResult' = [qResult EXCEPT ![q] = <<>>]
  /\ qErr' = [qErr EXCEPT ![q] = ctxErr[q]]
  /\ queryPc' = [queryPc EXCEPT ![q] = "returned"]
  /\ UNCHANGED <<dbQuery, ctxErr, resultCh, helperPc, helperSends>>

\* slowDBQuery is not called.
DBIdle ==
  /\ dbQuery = [q \in Queries |-> "SELECT * FROM users"]
  /\ ctxErr = [q \in Queries |-> "nil"]
  /\ resultCh = [q \in Queries |-> <<>>]
  /\ helperPc = [q \in Queries |-> "unstarted"]
  /\ helperSends = [q \in Queries |-> 0]
  /\ queryPc = [q \in Queries |-> "idle"]
  /\ qResult = [q \in Queries |-> <<>>]
  /\ qErr = [q \in Queries |-> "none"]

(***************************************************************************)
(* EventBus (10_advanced_patterns): Subscribe and Publish.  Each           *)
(* subscriber makes one Subscribe call with a handler of its own, each     *)
(* publisher one Publish call; a handler is named by its subscriber, an    *)
(* event's payload by its publisher.                                       *)
(***************************************************************************)

\* Bounds: subscribers and publishers in a run.
NumSubs == 2

NumPubs == 1

Subs == 1..NumSubs

Pubs == 1..NumPubs

\* The event types the demo uses.
EventTypes == {"created", "updated"}

\* Event{Type: t, Payload: p}
Event(t, p) == <<t, p>>

\* The invocation h(e) of subscriber s's handler
Invocation(s, e) == <<s, e>>

\* sync.RWMutex: Lock proceeds when nobody holds the lock, RLock when no
\* writer holds it.
WriteLockFree == ebWriter = 0 /\ ebReaders = {}

ReadLockFree == ebWriter = 0

\* bus := NewEventBus(): an empty map, reading a missing key gives nil
BusInit ==
  /\ subType \in [Subs -> EventTypes]
  /\ pubType \in [Pubs -> EventTypes]
  /\ ebWriter = 0
  /\ ebReaders = {}
  /\ handlers = [t \in EventTypes |-> <<>>]
  /\ subPc = [s \in Subs |-> "idle"]
  /\ pubPc = [p \in Pubs |-> "idle"]
  /\ snap = [p \in Pubs |-> <<>>]
  /\ pubIdx = [p \in Pubs |-> 1]
  /\ started = [p \in Pubs |-> <<>>]
  /\ pendingInv = {}
  /\ ran = [p \in Pubs |-> <<>>]
  /\ snapSubs = [p \in Pubs |-> {}]

\* Subscribe: eb.mu.Lock()
SubLock(s) ==
  /\ subPc[s] = "idle"
  /\ WriteLockFree
  /\ ebWriter' = s
  /\ subPc' = [subPc EXCEPT ![s] = "append"]
  /\ UNCHANGED <<subType, pubType, ebReaders, handlers, pubPc, snap, pubIdx,
                 started, pendingInv, ran, snapSubs>>

\* (variant that replaces the handlers of the type by the new one)
SubAppendReplacing(s) ==
  /\ subPc[s] = "append"
  /\ handlers' = [handlers EXCEPT ![subType[s]] = <<s>>]
  /\ subPc' = [subPc EXCEPT ![s] = "unlock"]
  /\ UNCHANGED <<subType, pubType, ebWriter, ebReaders, pubPc, snap, pubIdx,
                 started, pendingInv, ran, snapSubs>>

\* Subscribe: eb.handlers[eventType] = append(eb.handlers[eventType], h)
SubAppend(s) ==
  /\ subPc[s] = "append"
  /\ handlers' = [handlers EXCEPT ![subType[s]] = Append(@, s)]
  /\ subPc' = [subPc EXCEPT ![s] = "unlock"]
  /\ UNCHANGED <<subType, pubType, ebWriter, ebReaders, pubPc, snap, pubIdx,
                 started, pendingInv, ran, snapSubs>>

\* Subscribe: defer eb.mu.Unlock()
SubUnlock(s) ==
  /\ subPc[s] = "unlock"
  /\ ebWriter' = 0
  /\ subPc' = [subPc EXCEPT ![s] = "done"]
  /\ UNCHANGED <<subType, pubType, ebReaders, handlers, pubPc, snap, pubIdx,
                 started, pendingInv, ran, snapSubs>>

\* Publish: eb.mu.RLock()
PubRLock(p) ==
  /\ pubPc[p] = "idle"
  /\ ReadLockFree
  /\ ebReaders' = ebReaders \cup {p}
  /\ pubPc' = [pubPc EXCEPT ![p] = "read"]
  /\ UNCHANGED <<subType, pubType, ebWriter, handlers, subPc, snap, pubIdx,
                 started, pendingInv, ran, snapSubs>>

\* Publish: handlers := eb.handlers[e.Type]
PubRead(p) ==
  /\ pubPc[p] = "read"
  /\ snap' = [snap EXCEPT ![p] = handlers[pubType[p]]]
  /\ snapSubs' = [snapSubs EXCEPT ![p] =
                    {s \in Subs : /\ subType[s] = pubType[p]
                                  /\ subPc[s] \in {"unlock", "done"}}]
  /\ pubPc' = [pubPc EXCEPT ![p] = "runlock"]
  /\ UNCHANGED <<subType, pubType, ebWriter, ebReaders, handlers, subPc,
                 pubIdx, started, pendingInv, ran>>

\* Publish: eb.mu.RUnlock()
PubRUnlock(p) ==
  /\ pubPc[p] = "runlock"
  /\ ebReaders' = ebReaders \ {p}
  /\ pubPc' = [pubPc EXCEPT ![p] = "loop"]
  /\ UNCHANGED <<subType, pubType, ebWriter, handlers, subPc, snap, pubIdx,
                 started, pendingInv, ran, snapSubs>>

\* Publish: for _, h := range handlers { go h(e) }: one iteration
PubDispatch(p) ==
  /\ pubPc[p] = "loop"
  /\ pubIdx[p] <= Len(snap[p])
  /\ started' = [started EXCEPT ![p] =
                   Append(@, Invocation(snap[p][pubIdx[p]],
                                        Event(pubType[p], p)))]
  /\ pendingInv' = pendingInv \cup
                     {<<p, Invocation(snap[p][pubIdx[p]],
                                      Event(pubType[p], p))>>}
  /\ pubIdx' = [pubIdx EXCEPT ![p] = @ + 1]
  /\ UNCHANGED <<subType, pubType, ebWriter, ebReaders, handlers, subPc,
                 pubPc, snap, ran, snapSubs>>

\* Publish: the loop has ended, Publish returns
PubReturn(p) ==
  /\ pubPc[p] = "loop"
  /\ pubIdx[p] > Len(snap[p])
  /\ pubPc' = [pubPc EXCEPT ![p] = "done"]
  /\ UNCHANGED <<subType, pubType, ebWriter, ebReaders, handlers, subPc,
                 snap, pubIdx, started, pendingInv, ran, snapSubs>>

\* a started handler goroutine runs h(e)
HandlerRun(p, inv) ==
  /\ <<p, inv>> \in pendingInv
  /\ pendingInv' = pendingInv \ {<<p, inv>>}
  /\ ran' = [ran EXCEPT ![p] = Append(@, inv)]
  /\ UNCHANGED <<subType, pubType, ebWriter, ebReaders, handlers, subPc,
                 pubPc, snap, pubIdx, started, snapSubs>>

\* A bus nobody uses.
BusIdle ==
  /\ subType = [s \in Subs |-> "created"]
  /\ pubType = [p \in Pubs |-> "created"]
  /\ ebWriter = 0
  /\ ebReaders = {}
  /\ handlers = [t \in EventTypes |-> <<>>]
  /\ subPc = [s \in Subs |-> "idle"]
  /\ pubPc = [p \in Pubs |-> "idle"]
  /\ snap = [p \in Pubs |-> <<>>]
  /\ pubIdx = [p \in Pubs |-> 1]
  /\ started = [p \in Pubs |-> <<>>]
  /\ pendingInv = {}
  /\ ran = [p \in Pubs |-> <<>>]
  /\ snapSubs = [p \in Pubs |-> {}]

(***************************************************************************)
(* Chunk (09_generics): a sequential loop over the parameters slice and    *)
(* size.                                                                   *)
(***************************************************************************)

\* Bounds on the arguments: slices of up to MaxSlice elements, sizes from
\* -1 to MaxSize.
MaxSlice == 3
MaxSize == 4

\* Bound on the iterations followed: a call whose loop does not end is
\* followed until chunks has MaxChunks elements.
MaxChunks == 5

ChunkElems == 1..2
ChunkSizes == (0 - 1)..MaxSize

\* Chunk([]int{1, 2, 3, 4, 5, 6, 7}, 3)
DemoSlice == <<1, 2, 3, 4, 5, 6, 7>>
DemoSize == 3

\* Entry of Chunk: var chunks [][]T is nil.
ChunkInit ==
  /\ \/ slice0 \in SeqsUpTo(ChunkElems, MaxSlice) /\ size0 \in ChunkSizes
     \/ slice0 = DemoSlice /\ size0 = DemoSize
  /\ slice = slice0
  /\ size = size0
  /\ chunks = <<>>
  /\ chunkPc = "loop"

\* if len(slice) < size { size = len(slice) }
ClampedSize == IF Len(slice) < size THEN Len(slice) ELSE size

\* One iteration of `for len(slice) > 0`: size is lowered to len(slice) if
\* larger, slice[:size] is appended and slice becomes slice[size:].
ChunkIterate ==
  /\ chunkPc = "loop"
  /\ Len(slice) > 0
  /\ ClampedSize >= 0
  /\ Len(chunks) < MaxChunks
  /\ size' = ClampedSize
  /\ chunks' = Append(chunks, SubSeq(slice, 1, ClampedSize))
  /\ slice' = SubSeq(slice, ClampedSize + 1, Len(slice))
  /\ UNCHANGED <<slice0, size0, chunkPc>>

\* slice[:size] with a negative size: run-time panic (slice bounds out of
\* range).
ChunkPanic ==
  /\ chunkPc = "loop"
  /\ Len(slice) > 0
  /\ ClampedSize < 0
  /\ chunkPc' = "panicked"
  /\ UNCHANGED <<slice0, size0, slice, size, chunks>>

\* len(slice) == 0: the loop ends, return chunks.
ChunkReturn ==
  /\ chunkPc = "loop"
  /\ Len(slice) = 0
  /\ chunkPc' = "returned"
  /\ UNCHANGED <<slice0, size0, slice, size, chunks>>

\* Chunk is not called.
ChunkIdle ==
  /\ slice0 = <<>>
  /\ size0 = 0
  /\ slice = <<>>
  /\ size = 0
  /\ chunks = <<>>
  /\ chunkPc = "returned"

(***************************************************************************)
(* Specifications.  Each demonstration runs on its own; the variables of   *)
(* the other one stay at their initial values.                             *)
(***************************************************************************)

\* The pool before SECTION 10 runs, when it is not the subject.
PoolIdle ==
  /\ numWorkers = 1
  /\ numJobs = 0
  /\ jobsCap = 1
  /\ resultsCap = 1
  /\ jobs = <<>>
  /\ jobsClosed = FALSE
  /\ results = <<>>
  /\ resultsClosed = FALSE
  /\ wg4 = 0
  /\ mainPc = "spawn"
  /\ w = 1
  /\ j = 1
  /\ sum = 0
  /\ workerPc = [k \in 1..1 |-> "unstarted"]
  /\ job = [k \in 1..1 |-> 0]
  /\ closerPc = "unstarted"
  /\ panicked = "none"
  /\ takeCount = <<>>
  /\ sendCount = <<>>
  /\ received = EmptyBag
  /\ resultsClosedBy = <<>>
  /\ jobsClosedBy = <<>>

\* A breaker nobody calls.
CBIdle ==
  /\ threshold = 1
  /\ timeout = 0
  /\ state = Closed
  /\ failures = 0
  /\ lastFailTime = 0
  /\ mu = 0
  /\ now = Epoch
  /\ callPc = [c \in Callers |-> "idle"]
  /\ err = [c \in Callers |-> NoErr]
  /\ ret = [c \in Callers |-> "none"]
  /\ tmp = [c \in Callers |-> 0]
  /\ calls = 0
  /\ streak = 0
  /\ probe = [c \in Callers |-> FALSE]
  /\ probeAdmittedAt = 0
  /\ lastExec = "none"
  /\ fnRuns = [c \in Callers |-> 0]
  /\ stdout = <<>>

PoolStep(A) == A /\ UNCHANGED <<cbVars, pipeVars, doneVars, ctrVars, dbVars,
    busVars, chunkVars>>

CBStep(A) == A /\ UNCHANGED <<poolVars, pipeVars, doneVars, ctrVars, dbVars,
    busVars, chunkVars>>

PoolNext ==
  \/ PoolStep(MainSpawn)
  \/ PoolStep(MainSend)
  \/ PoolStep(MainClose)
  \/ PoolStep(MainGo)
  \/ PoolStep(MainCollect)
  \/ PoolStep(MainCollectEnd)
  \/ \E k \in Workers : PoolStep(WorkerRecv(k))
  \/ \E k \in Workers : PoolStep(WorkerRangeEnd(k))
  \/ \E k \in Workers : PoolStep(WorkerSend(k))
  \/ \E k \in Workers : PoolStep(WorkerDone(k))
  \/ PoolStep(CloserWait)
  \/ PoolStep(CloserClose)

PoolSpecInit ==
  /\ PoolInit
  /\ CBIdle
  /\ PipeIdle
  /\ DoneIdle
  /\ CtrIdle
  /\ DBIdle
  /\ BusIdle
  /\ ChunkIdle

PoolSpec == PoolSpecInit /\ [][PoolNext]_vars

\* The Go scheduler runs every runnable goroutine eventually.
PoolFairSpec ==
  /\ PoolSpecInit
  /\ [][PoolNext]_vars
  /\ WF_vars(PoolStep(MainSpawn \/ MainSend \/ MainClose \/ MainGo
                       \/ MainCollect \/ MainCollectEnd))
  /\ \A k \in 1..MaxWorkers :
       WF_vars(k \in Workers
                /\ PoolStep(WorkerRecv(k) \/ WorkerRangeEnd(k)
                             \/ WorkerSend(k) \/ WorkerDone(k)))
  /\ WF_vars(PoolStep(CloserWait \/ CloserClose))

\* The pool in the demo's configuration as well as in the bounded ones.
PoolDemoSpecInit ==
  /\ PoolInit \/ PoolDemoInit
  /\ CBIdle
  /\ PipeIdle
  /\ DoneIdle
  /\ CtrIdle
  /\ DBIdle
  /\ BusIdle
  /\ ChunkIdle

PoolDemoSpec == PoolDemoSpecInit /\ [][PoolNext]_vars

CBNext ==
  \/ \E c \in Callers : CBStep(CallBegin(c))
  \/ \E c \in Callers : CBStep(Lock(c))
  \/ \E c \in Callers : CBStep(Switch(c))
  \/ \E c \in Callers : CBStep(FnReturn(c))
  \/ \E c \in Callers : CBStep(IncrRead(c))
  \/ \E c \in Callers : CBStep(IncrWrite(c))
  \/ \E c \in Callers : CBStep(Stamp(c))
  \/ \E c \in Callers : CBStep(Trip(c))
  \/ \E c \in Callers : CBStep(Reset(c))
  \/ \E c \in Callers : CBStep(Unlock(c))
  \/ CBStep(Tick)

CBSpecInit ==
  /\ CBInit
  /\ PoolIdle
  /\ PipeIdle
  /\ DoneIdle
  /\ CtrIdle
  /\ DBIdle
  /\ BusIdle
  /\ ChunkIdle

CBSpec == CBSpecInit /\ [][CBNext]_vars

PipeStep(A) == A /\ UNCHANGED <<poolVars, cbVars, doneVars, ctrVars, dbVars,
    busVars, chunkVars>>

PipeNext ==
  \/ PipeStep(GenSend)
  \/ PipeStep(GenClose)
  \/ PipeStep(SqRangeEnd)
  \/ PipeStep(SqSend)
  \/ PipeStep(SqClose)
  \/ PipeStep(AddRangeEnd)
  \/ PipeStep(AddSend)
  \/ PipeStep(AddClose)
  \/ PipeStep(ConsPrint)
  \/ PipeStep(ConsRangeEnd)

PipeSpecInit ==
  /\ PipeInit
  /\ PoolIdle
  /\ CBIdle
  /\ DoneIdle
  /\ CtrIdle
  /\ DBIdle
  /\ BusIdle
  /\ ChunkIdle

\* The scheduler runs some runnable goroutine as long as there is one.
PipeSpec == PipeSpecInit /\ [][PipeNext]_vars /\ WF_vars(PipeNext)

DoneStep(A) == A /\ UNCHANGED <<poolVars, cbVars, pipeVars, ctrVars, dbVars,
    busVars, chunkVars>>

DoneNext ==
  \/ DoneStep(DmGo)
  \/ DoneStep(DmWake1)
  \/ DoneStep(DmCloseDone)
  \/ DoneStep(DmWake2)
  \/ DoneStep(DmCloseOut)
  \/ DoneStep(DmCount)
  \/ DoneStep(DmRangeEnd)
  \/ DoneStep(ProdSelectDone)
  \/ DoneStep(ProdSelectSend)
  \/ DoneStep(ProdWake)
  \/ DoneStep(DoneTick)

DoneSpecInit ==
  /\ DoneInit
  /\ PoolIdle
  /\ CBIdle
  /\ PipeIdle
  /\ CtrIdle
  /\ DBIdle
  /\ BusIdle
  /\ ChunkIdle

DoneSpec == DoneSpecInit /\ [][DoneNext]_vars

CtrStep(A) == A /\ UNCHANGED <<poolVars, cbVars, pipeVars, doneVars, dbVars,
    busVars, chunkVars>>

CtrNext ==
  \/ CtrStep(SmSpawn)
  \/ CtrStep(SmWait)
  \/ CtrStep(SmValueLock)
  \/ CtrStep(SmValueRead)
  \/ CtrStep(SmValueUnlock)
  \/ \E k \in Incrementers : CtrStep(IncLock(k))
  \/ \E k \in Incrementers : CtrStep(IncRead(k))
  \/ \E k \in Incrementers : CtrStep(IncWrite(k))
  \/ \E k \in Incrementers : CtrStep(IncUnlock(k))
  \/ \E k \in Incrementers : CtrStep(IncWgDone(k))

CtrSpecInit ==
  /\ CtrInit
  /\ PoolIdle
  /\ CBIdle
  /\ PipeIdle
  /\ DoneIdle
  /\ DBIdle
  /\ BusIdle
  /\ ChunkIdle

CtrSpec == CtrSpecInit /\ [][CtrNext]_vars

DBStep(A) == A /\ UNCHANGED <<poolVars, cbVars, pipeVars, doneVars, ctrVars,
    busVars, chunkVars>>

DBNext ==
  \/ \E q \in Queries : DBStep(QueryCall(q))
  \/ \E q \in Queries : DBStep(CtxFinish(q))
  \/ \E q \in Queries : DBStep(HelperWake(q))
  \/ \E q \in Queries : DBStep(HelperSend(q))
  \/ \E q \in Queries : DBStep(QueryRecv(q))
  \/ \E q \in Queries : DBStep(QueryCtxDone(q))

DBSpecInit ==
  /\ DBInit
  /\ PoolIdle
  /\ CBIdle
  /\ PipeIdle
  /\ DoneIdle
  /\ CtrIdle
  /\ BusIdle
  /\ ChunkIdle

\* The scheduler runs every runnable goroutine eventually; nothing obliges a
\* caller to call, a context to finish, or slowDBQuery to be scheduled.
DBSpec ==
  /\ DBSpecInit
  /\ [][DBNext]_vars
  /\ \A q \in Queries : WF_vars(DBStep(HelperWake(q) \/ HelperSend(q)))

BusStep(A) == A /\ UNCHANGED <<poolVars, cbVars, pipeVars, doneVars, ctrVars,
    dbVars, chunkVars>>

BusNext ==
  \/ \E s \in Subs : BusStep(SubLock(s))
  \/ \E s \in Subs : BusStep(SubAppend(s))
  \/ \E s \in Subs : BusStep(SubUnlock(s))
  \/ \E p \in Pubs : BusStep(PubRLock(p))
  \/ \E p \in Pubs : BusStep(PubRead(p))
  \/ \E p \in Pubs : BusStep(PubRUnlock(p))
  \/ \E p \in Pubs : BusStep(PubDispatch(p))
  \/ \E p \in Pubs : BusStep(PubReturn(p))
  \/ \E x \in pendingInv : BusStep(HandlerRun(x[1], x[2]))

BusSpecInit ==
  /\ BusInit
  /\ PoolIdle
  /\ CBIdle
  /\ PipeIdle
  /\ DoneIdle
  /\ CtrIdle
  /\ DBIdle
  /\ ChunkIdle

BusSpec == BusSpecInit /\ [][BusNext]_vars

ChunkStep(A) == A /\ UNCHANGED <<poolVars, cbVars, pipeVars, doneVars,
    ctrVars, dbVars, busVars>>

ChunkNext ==
  \/ ChunkStep(ChunkIterate)
  \/ ChunkStep(ChunkPanic)
  \/ ChunkStep(ChunkReturn)

ChunkSpecInit ==
  /\ ChunkInit
  /\ PoolIdle
  /\ CBIdle
  /\ PipeIdle
  /\ DoneIdle
  /\ CtrIdle
  /\ DBIdle
  /\ BusIdle

\* A running call takes its next step.
ChunkSpec == ChunkSpecInit /\ [][ChunkNext]_vars /\ WF_vars(ChunkNext)

(***************************************************************************)
(* Properties of the worker pool.                                          *)
(***************************************************************************)

AllWorkersExited == \A k \in Workers : workerPc[k] = "done"

PoolCompleted == mainPc = "done"

\* C1: for every pool size and job count, in every interleaving, no job
\* yields two results and the aggregator receives no result twice; when the
\* run completes, every enqueued job has yielded exactly one result (its
\* square) and the aggregator has received exactly those M results, each once.
C1_ExactlyOneResultPerJob ==
  /\ \A x \in Jobs : sendCount[x] <= 1
  /\ \A x \in Jobs : CopiesIn(x * x, received) <= sendCount[x]
  /\ \A r \in BagToSet(received) : \E x \in Jobs : r = x * x
  /\ PoolCompleted =>
       /\ \A x \in Jobs : sendCount[x] = 1 /\ CopiesIn(x * x, received) = 1
       /\ BagCardinality(received) = numJobs
       /\ results = <<>>

C1_Witness ==
  /\ PoolCompleted
  /\ numWorkers >= 2
  /\ numJobs >= 3
  /\ BagCardinality(received) = numJobs

\* C3: close(results) is executed at most once (exactly once in a run that
\* completes), only by the coordinator goroutine, and only when every worker
\* has exited (wg4.Done executed); no send on results and no second close
\* ever meets the closed channel (the program never panics).
C3_ResultsClosedOnceAfterWorkers ==
  /\ Len(resultsClosedBy) <= 1
  /\ \A i \in 1..Len(resultsClosedBy) : resultsClosedBy[i] = "coordinator"
  /\ resultsClosed <=> Len(resultsClosedBy) = 1
  /\ resultsClosed => AllWorkersExited /\ wg4 = 0
  /\ closerPc = "close" => AllWorkersExited
  /\ PoolCompleted => Len(resultsClosedBy) = 1
  /\ panicked = "none"

C3_Witness ==
  /\ resultsClosed
  /\ numWorkers >= 2
  /\ numJobs >= 2
  /\ results # <<>>

\* C4: the pool reports completion only when every enqueued job has been
\* taken and processed; and once the job queue is closed with jobs still
\* buffered, every job is eventually processed and the pool completes.
C4_ClosedJobsAreDrained ==
  /\ [](PoolCompleted =>
          /\ \A x \in Jobs : takeCount[x] = 1 /\ sendCount[x] = 1
          /\ jobs = <<>>
          /\ AllWorkersExited
          /\ resultsClosed)
  /\ (jobsClosed /\ jobs # <<>>) ~> (\A x \in Jobs : sendCount[x] = 1)
  /\ (jobsClosed /\ jobs # <<>>) ~> PoolCompleted

C4_Witness ==
  /\ jobsClosed
  /\ Len(jobs) >= 2
  /\ numWorkers >= 2
  /\ \A x \in Jobs : takeCount[x] = 0

\* C5: every job is delivered by at most one receive, no two workers hold
\* the same job, and a job that has left the jobs queue was delivered to
\* exactly one worker.
C5_JobTakenByOneWorker ==
  /\ \A x \in Jobs : takeCount[x] <= 1
  /\ \A k1, k2 \in Workers :
       (k1 # k2 /\ job[k1] # 0) => job[k1] # job[k2]
  /\ \A x \in Jobs :
       (x < j /\ \A i \in 1..Len(jobs) : jobs[i] # x) => takeCount[x] = 1
  /\ \A k \in Workers : job[k] # 0 => takeCount[job[k]] = 1

C5_Witness ==
  \E k1, k2 \in Workers : k1 # k2 /\ job[k1] # 0 /\ job[k2] # 0

(***************************************************************************)
(* Properties of the circuit breaker.                                      *)
(***************************************************************************)

\* The caller holds the mutex: it is between Lock and Unlock.
InCall(c) == callPc[c] \notin {"idle", "lock"}

\* The caller's call has passed the state check and run the operation.
Executing(c) ==
  callPc[c] \in {"fn", "incrRead", "incrWrite", "stamp", "trip", "reset"}

\* Caller c performs the state check of Call in this step.
ChecksState(c) == callPc[c] = "switch" /\ callPc'[c] # "switch"

\* Caller c's call is rejected by this step without running the operation.
Rejected(c) ==
  /\ callPc'[c] = "unlock"
  /\ ret'[c] = ErrOpen
  /\ fnRuns'[c] = 0
  /\ UNCHANGED <<state, failures, lastFailTime>>

AllReturned == \A c \in Callers : callPc[c] = "idle"

\* C2: when `threshold` or more consecutive operation failures have been
\* observed and the timeout has not elapsed since the last recorded failure,
\* a call that reaches the state check is rejected: it returns the
\* circuit-open error and does not invoke the operation.
C2_RejectedAfterThresholdFailures ==
  [][\A c \in Callers :
       (ChecksState(c) /\ streak >= threshold
          /\ now - lastFailTime <= timeout)
       => Rejected(c)]_vars

C2_Witness ==
  \E c \in Callers :
    /\ callPc[c] = "unlock"
    /\ ret[c] = ErrOpen
    /\ fnRuns[c] = 0
    /\ threshold >= 2
    /\ streak = threshold
    /\ lastExec = "fail"

\* C6: whenever all calls have returned, the failure counter equals the
\* number of operation executions that failed since the last successful
\* execution, and if that number is >= threshold the state is Open.
C6_CounterNotCorrupted ==
  AllReturned =>
    /\ failures = streak
    /\ streak >= threshold => state = Open

C6_Witness ==
  /\ AllReturned
  /\ \A c \in Callers : ret[c] = OpErr
  /\ streak >= 2
  /\ failures = streak
  /\ state = Open

\* C7: at no time are two callers between Lock and Unlock (inside the state
\* check, the guarded operation or the state update); whoever is there holds
\* the mutex.
C7_MutualExclusion ==
  /\ \A c1, c2 \in Callers : (InCall(c1) /\ InCall(c2)) => c1 = c2
  /\ \A c \in Callers : InCall(c) => mu = c
  /\ (\A c \in Callers : ~InCall(c)) => mu = 0

C7_Witness ==
  \E c1, c2 \in Callers :
    /\ c1 # c2
    /\ callPc[c1] = "fn"
    /\ callPc[c2] = "lock"

\* C8: while the breaker is HalfOpen exactly one call, the probe, is past the
\* state check; a probe whose operation failed leaves the breaker Open with a
\* failure timestamp taken during the probe; and a call that reaches the state
\* check after a failed probe, before the timeout has elapsed again, is
\* rejected without invoking the operation.
C8_FailedProbeReopens ==
  /\ [](state = HalfOpen =>
          /\ \E c \in Callers : probe[c] /\ Executing(c)
          /\ \A c1, c2 \in Callers :
               (Executing(c1) /\ Executing(c2)) => c1 = c2)
  /\ [](\A c \in Callers :
          (probe[c] /\ callPc[c] = "unlock" /\ err[c] \in OpErrors) =>
            /\ state = Open
            /\ ret[c] = err[c]
            /\ lastFailTime >= probeAdmittedAt
            /\ probeAdmittedAt > 0)
  /\ [][\A c \in Callers :
          (ChecksState(c) /\ lastExec = "probeFail"
             /\ now - lastFailTime <= timeout)
          => Rejected(c)]_vars

C8_Witness ==
  \E c \in Callers :
    /\ callPc[c] = "unlock"
    /\ ret[c] = ErrOpen
    /\ lastExec = "probeFail"
    /\ state = Open

\* C9: a probe whose operation succeeded ends its call with the breaker
\* Closed and the failure counter 0, and a call that reaches the state check
\* next runs the operation as an ordinary (non-probe) call.
C9_SuccessfulProbeCloses ==
  /\ [](\A c \in Callers :
          (probe[c] /\ callPc[c] = "unlock" /\ err[c] = NoErr) =>
            /\ state = Closed
            /\ failures = 0
            /\ ret[c] = NoErr)
  /\ [][\A c \in Callers :
          (ChecksState(c) /\ lastExec = "probeOk")
          => /\ callPc'[c] = "fn"
             /\ fnRuns'[c] = 1
             /\ ~probe'[c]
             /\ state' = Closed]_vars

C9_Witness ==
  \E c \in Callers :
    /\ callPc[c] = "fn"
    /\ ~probe[c]
    /\ lastExec = "probeOk"

\* C10: the state changes from Closed to Open only in the update of a call
\* whose operation failed and whose increment brought the counter to
\* >= threshold; a failing call that leaves the counter below threshold
\* leaves the breaker Closed.
C10_TripsOnlyAtThreshold ==
  /\ [][(state = Closed /\ state' = Open) =>
          \E c \in Callers :
            /\ callPc[c] = "trip"
            /\ callPc'[c] = "unlock"
            /\ err[c] \in OpErrors
            /\ failures = tmp[c] + 1
            /\ failures >= threshold]_vars
  /\ [][\A c \in Callers :
          (callPc[c] = "trip" /\ callPc'[c] = "unlock" /\ state = Closed
             /\ failures < threshold)
          => state' = Closed /\ ret'[c] = err[c]]_vars

C10_Witness ==
  \E c \in Callers :
    /\ callPc[c] = "unlock"
    /\ err[c] = OpErr
    /\ ret[c] = OpErr
    /\ state = Closed
    /\ failures >= 1
    /\ failures < threshold

\* C11: while the breaker is Open, a call that reaches the state check is let
\* through (Open -> HalfOpen, as the probe) only if more than `timeout` has
\* passed since lastFailTime; otherwise it is rejected and the breaker stays
\* Open.  The state leaves Open in no other step.
C11_TimeoutGate ==
  /\ [][\A c \in Callers :
          (ChecksState(c) /\ state = Open) =>
            /\ (now - lastFailTime <= timeout) =>
                 (Rejected(c) /\ state' = Open)
            /\ (now - lastFailTime > timeout) =>
                 (state' = HalfOpen /\ callPc'[c] = "fn" /\ probe'[c])]_vars
  /\ [][(state = Open /\ state' # Open) =>
          /\ state' = HalfOpen
          /\ now - lastFailTime > timeout
          /\ \E c \in Callers : ChecksState(c)]_vars

C11_Witness ==
  \E c \in Callers :
    /\ probe[c]
    /\ callPc[c] = "fn"
    /\ timeout >= 1
    /\ now - lastFailTime = timeout + 1

\* C12: the breaker is Open only when at least `threshold` operation
\* failures have occurred since the last success, and a call whose operation
\* succeeded leaves the counter at 0 and the breaker Closed.
C12_OnlyConsecutiveFailuresOpen ==
  /\ state = Open => streak >= threshold
  /\ \A c \in Callers :
       (callPc[c] = "unlock" /\ fnRuns[c] = 1 /\ err[c] = NoErr) =>
         /\ failures = 0
         /\ streak = 0
         /\ state = Closed

C12_Witness ==
  /\ AllReturned
  /\ threshold = 2
  /\ calls = 3
  /\ lastExec = "fail"
  /\ failures = 1
  /\ state = Closed

\* C13: the breaker starts Closed and every change of its state is one of
\* Closed -> Open, Open -> HalfOpen, HalfOpen -> Closed, HalfOpen -> Open;
\* HalfOpen -> Closed happens only in a probe whose operation succeeded.
C13_LegalTransitions ==
  /\ state = Closed
  /\ [][state' # state =>
          /\ <<state, state'>> \in {<<Closed, Open>>, <<Open, HalfOpen>>,
                                    <<HalfOpen, Closed>>, <<HalfOpen, Open>>}
          /\ (state' = Closed) =>
               \E c \in Callers :
                 probe[c] /\ callPc[c] = "reset" /\ err[c] = NoErr]_vars

C13_Witness ==
  /\ AllReturned
  /\ state = Closed
  /\ lastExec = "probeOk"

\* C14: a call that is allowed to execute runs the operation exactly once and
\* returns exactly the outcome of that run (nil, or the operation's error); a
\* call that does not run the operation returns the rejection.
C14_RunsOnceReturnsOutcome ==
  \A c \in Callers :
    /\ fnRuns[c] <= 1
    /\ Executing(c) => fnRuns[c] = 1
    /\ (callPc[c] = "unlock" /\ fnRuns[c] = 1) => ret[c] = err[c]
    /\ (callPc[c] = "unlock" /\ fnRuns[c] = 0) =>
         (ret[c] = ErrOpen /\ err[c] = NoErr)

C14_Witness ==
  \E c \in Callers :
    /\ callPc[c] = "unlock"
    /\ fnRuns[c] = 1
    /\ ret[c] = OpErr
    /\ state = Open
    /\ ~probe[c]

\* C15: the error a rejected call returns is distinguishable from every error
\* an executed call returns: no call that ran the operation returns what a
\* rejection returns.
C15_RejectionDistinct ==
  \A c \in Callers :
    (callPc[c] = "unlock" /\ fnRuns[c] = 1) => ret[c] # ErrOpen

\* C19: no step of any call changes the threshold or the timeout given to
\* the constructor.
C19_ConfigImmutable ==
  [][threshold' = threshold /\ timeout' = timeout]_vars

C19_Witness ==
  /\ threshold >= 2
  /\ timeout >= 1
  /\ lastExec = "probeOk"
  /\ \E c \in Callers : callPc[c] = "idle" /\ ret[c] = ErrOpen

\* C20 (as stated): no path through Call prints anything.
C20_NoOutput == stdout = <<>>

\* C20 (amended): Call prints one line when it moves the breaker from Open
\* to HalfOpen and one line, with the failure count, when it sets the state
\* to Open; no other step prints (rejection, an execution that leaves the
\* breaker Closed, success), and what was printed is never changed.
C20_PrintsOnlyOnTransitions ==
  [][/\ (state = Open /\ state' = HalfOpen) =>
          stdout' = Append(stdout, HalfOpenLine)
     /\ (state # Open /\ state' = Open) =>
          stdout' = Append(stdout, OpenedLine(failures))
     /\ (state' = state \/ state' = Closed) => stdout' = stdout]_vars

C20_Witness ==
  /\ Len(stdout) >= 3
  /\ stdout[1] = OpenedLine(threshold)
  /\ stdout[2] = HalfOpenLine
  /\ stdout[3] = OpenedLine(threshold + 1)
  /\ threshold >= 2

(***************************************************************************)
(* Further properties of the worker pool.                                  *)
(***************************************************************************)

RECURSIVE SumOfSquares(_)
SumOfSquares(n) == IF n = 0 THEN 0 ELSE n * n + SumOfSquares(n - 1)

\* C16: when the run completes, the aggregator's sum is the sum of job*job
\* over all enqueued jobs, whatever the interleaving; for the demo's jobs
\* 1..9 (3 workers, capacities 20) it is 285.
C16_SumOfSquares ==
  PoolCompleted =>
    /\ sum = SumOfSquares(numJobs)
    /\ numJobs = 9 => sum = 285

C16_Witness ==
  /\ PoolCompleted
  /\ numWorkers = 3
  /\ numJobs = 9
  /\ sum = 285

\* C17: close(jobs) is executed at most once, by main, only after all M jobs
\* have been sent; closing never drops a buffered job; no send meets the
\* closed channel; and a worker has left its loop only if the jobs channel is
\* closed and empty.
C17_JobQueueProtocol ==
  /\ Len(jobsClosedBy) <= 1
  /\ \A i \in 1..Len(jobsClosedBy) : jobsClosedBy[i] = "main"
  /\ jobsClosed <=> Len(jobsClosedBy) = 1
  /\ jobsClosed => (j = numJobs + 1 /\ mainPc \notin {"spawn", "send"})
  /\ jobsClosed =>
       \A x \in Jobs :
         takeCount[x] = 1 \/ \E i \in 1..Len(jobs) : jobs[i] = x
  /\ \A k \in Workers :
       workerPc[k] \in {"defer", "done"} => (jobsClosed /\ jobs = <<>>)
  /\ panicked = "none"

C17_Witness ==
  /\ numJobs >= 2
  /\ \E k1, k2 \in Workers : workerPc[k1] = "done" /\ workerPc[k2] = "send"

\* Some result has been received while the result of an earlier job has not.
OutOfOrder ==
  \E x, y \in Jobs :
    /\ x < y
    /\ CopiesIn(y * y, received) > 0
    /\ CopiesIn(x * x, received) = 0

\* C18: results can reach the aggregator out of job order, and only because
\* workers run concurrently: with a single worker they arrive in job order.
\* The execution the claim speaks of (2 workers, 2 jobs, the second job's
\* result received first) is the witness.
C18_ReorderNeedsTwoWorkers ==
  OutOfOrder => numWorkers >= 2

C18_Witness ==
  /\ numWorkers = 2
  /\ numJobs = 2
  /\ CopiesIn(4, received) = 1
  /\ CopiesIn(1, received) = 0

\* A goroutine is at a send whose buffer is full.
SendBlocked ==
  \/ mainPc = "send" /\ j <= numJobs /\ ~CanSend(jobs, jobsCap)
  \/ \E k \in Workers : workerPc[k] = "send" /\ ~CanSend(results, resultsCap)

\* The jobs fit in the two buffers and the workers' hands.
JobsFit == numJobs <= jobsCap + resultsCap + numWorkers

DemoConfig ==
  /\ numWorkers = DemoWorkers
  /\ numJobs = DemoJobs
  /\ jobsCap = DemoCap
  /\ resultsCap = DemoCap

MainRank ==
  CASE mainPc = "spawn" -> 4
    [] mainPc = "send" -> 3
    [] mainPc = "go" -> 2
    [] mainPc = "collect" -> 1
    [] OTHER -> 0

\* Statements a worker has yet to execute; a worker holding a job has that
\* job's two remaining channel operations ahead as well.
WorkerRank(k) ==
  CASE workerPc[k] = "done" -> 0
    [] workerPc[k] = "defer" -> 1
    [] workerPc[k] = "send" -> 4
    [] OTHER -> 2

RECURSIVE WorkerRanks(_)
WorkerRanks(n) == IF n = 0 THEN 0 ELSE WorkerRank(n) + WorkerRanks(n - 1)

CloserRank ==
  CASE closerPc = "unstarted" -> 3
    [] closerPc = "wait" -> 2
    [] closerPc = "close" -> 1
    [] OTHER -> 0

\* The work left: statements main, the workers and the coordinator have yet
\* to execute, and the channel operations each job has yet to go through (4
\* for a job not yet sent, 3 for one in the jobs buffer, 2 for one a worker
\* holds, 1 for a result in the results buffer).
WorkLeft ==
  (numWorkers + 1 - w) + MainRank + WorkerRanks(numWorkers) + CloserRank
  + 4 * (numJobs + 1 - j) + 3 * Len(jobs) + Len(results)
  + (IF panicked = "none" THEN 1 ELSE 0)

\* C22: whenever M <= jobs capacity + results capacity + N, no reachable
\* state short of completion is stuck, and every step of the pool reduces the
\* (non-negative) work left, so every interleaving reaches completion; in the
\* demo's configuration (3 workers, 9 jobs, capacities 20) no goroutine is
\* ever at a send whose buffer is full.
C22_DeadlockFree ==
  /\ [](JobsFit => (PoolCompleted \/ ENABLED PoolNext))
  /\ [](WorkLeft >= 0)
  /\ [][WorkLeft' < WorkLeft]_vars
  /\ [](DemoConfig => ~SendBlocked)

C22_Witness ==
  /\ PoolCompleted
  /\ numJobs = jobsCap + resultsCap + numWorkers
  /\ numJobs >= 3

(***************************************************************************)
(* Further properties of the circuit breaker.                              *)
(***************************************************************************)

\* C23: no step of a rejected call (its state check and its return) changes
\* state, failure counter or last-failure timestamp, nor does entering Call
\* or taking the lock; the timestamp changes only when a call whose operation
\* ran and failed records the current time, so rejected calls cannot postpone
\* the moment the timeout has elapsed.
C23_RejectionChangesNothing ==
  /\ [][\A c \in Callers :
          ((ChecksState(c) /\ callPc'[c] = "unlock")
             \/ (callPc[c] = "unlock" /\ fnRuns[c] = 0 /\ callPc'[c] = "idle")
             \/ (callPc[c] \in {"idle", "lock"} /\ callPc'[c] # callPc[c]))
          => UNCHANGED <<state, failures, lastFailTime>>]_vars
  /\ [][lastFailTime' # lastFailTime =>
          /\ lastFailTime' = now
          /\ \E c \in Callers :
               /\ callPc[c] = "stamp"
               /\ fnRuns[c] = 1
               /\ err[c] \in OpErrors]_vars

C23_Witness ==
  \E c1, c2 \in Callers :
    /\ c1 # c2
    /\ callPc[c1] = "unlock" /\ fnRuns[c1] = 0 /\ ret[c1] = ErrOpen
    /\ callPc[c2] = "idle" /\ ret[c2] = ErrOpen
    /\ state = Open
    /\ now - lastFailTime = 1
    /\ timeout = 1

\* C24: whenever no caller is inside Call's critical section, a Closed
\* breaker has failures < threshold and an Open one has failures >= threshold;
\* the counter never decreases except to 0 in the update of a call whose
\* operation succeeded (tripping and a failed probe leave it alone).
C24_CounterMatchesState ==
  /\ []((\A c \in Callers : ~InCall(c)) =>
          /\ state \in {Closed, Open}
          /\ state = Closed => failures < threshold
          /\ state = Open => failures >= threshold)
  /\ [][failures' < failures =>
          /\ failures' = 0
          /\ \E c \in Callers :
               /\ callPc[c] = "reset"
               /\ callPc'[c] = "unlock"
               /\ err[c] = NoErr]_vars

C24_Witness ==
  /\ AllReturned
  /\ state = Open
  /\ lastExec = "probeFail"
  /\ threshold >= 2
  /\ failures = threshold + 1

\* C25: the operation returning normally (nil or an error), the breaker is
\* HalfOpen only while the call that moved it there holds the lock and is
\* between its state check and its update; whenever the lock is free the
\* state is Closed or Open, and no call reaches the state check of Call with
\* state = HalfOpen.
C25_HalfOpenIsTransient ==
  /\ mu = 0 => state \in {Closed, Open}
  /\ \A c \in Callers : callPc[c] = "switch" => state \in {Closed, Open}
  /\ state = HalfOpen =>
       \E c \in Callers : mu = c /\ probe[c] /\ Executing(c)

C25_Witness ==
  \E c1, c2 \in Callers :
    /\ state = HalfOpen
    /\ mu = c1
    /\ callPc[c1] = "trip"
    /\ callPc[c2] = "lock"

(***************************************************************************)
(* Properties of the pipeline.                                             *)
(***************************************************************************)

\* What main must print for the inputs ns: ns[i] * ns[i] + 10, in order.
Expected(ns) == [i \in 1..Len(ns) |-> ns[i] * ns[i] + 10]

IsPrefix(s, t) == Len(s) <= Len(t) /\ \A i \in 1..Len(s) : s[i] = t[i]

PipeDone ==
  /\ genPc = "done"
  /\ sqPc = "done"
  /\ addPc = "done"
  /\ consPc = "done"

\* C21: main prints, in input order, n*n+10 for inputs it has been handed
\* and, when its loop has ended, for every input exactly once (11 14 19 26 35
\* for 1..5); a stage closes its output only when its input is closed and it
\* holds nothing; nothing panics; and main's loop and the three goroutines
\* all terminate.
C21_PipelineInOrder ==
  /\ [](IsPrefix(printed, Expected(nums)))
  /\ [](consPc = "done" => printed = Expected(nums))
  /\ []((nums = DemoNums /\ consPc = "done") =>
          printed = <<11, 14, 19, 26, 35>>)
  /\ [](ch1Closed => genI > Len(nums))
  /\ [](ch2Closed => (ch1Closed /\ sqPc = "done"))
  /\ [](ch3Closed => (ch2Closed /\ addPc = "done"))
  /\ [](pipePanicked = "none")
  /\ <>PipeDone

C21_Witness ==
  /\ PipeDone
  /\ nums = DemoNums
  /\ printed = <<11, 14, 19, 26, 35>>

(***************************************************************************)
(* Properties of the done-channel demonstration.                           *)
(***************************************************************************)

\* C26: the producer never sends on outCh after main has closed it (the
\* program does not panic), and when main has closed outCh the producer has
\* returned.
C26_NoSendAfterClose ==
  /\ donePanicked = "none"
  /\ outClosed => prodPc = "done"

(***************************************************************************)
(* Properties of SafeCounter.                                              *)
(***************************************************************************)

\* Increment has returned in goroutine k.
Incremented(k) == incPc[k] \in {"wgdone", "done"}

\* C27: whenever the K goroutines have all returned from Increment the count
\* is exactly K, main reads the count only then, and Value() returns K to
\* main, whatever the order of the Lock and Unlock operations.
C27_NoLostUpdate ==
  /\ (\A k \in Incrementers : Incremented(k)) => scCount = numInc
  /\ smPc \in {"valueLock", "valueRead", "valueUnlock", "done"} =>
       \A k \in Incrementers : incPc[k] = "done"
  /\ smValue >= 0 => smValue = numInc
  /\ smPc = "done" => smValue = numInc

C27_Witness ==
  /\ smPc = "done"
  /\ numInc >= 3
  /\ smValue = numInc

(***************************************************************************)
(* Properties of slowDBQuery.                                              *)
(***************************************************************************)

\* C28: the goroutine slowDBQuery starts never waits at its send (resultCh
\* has room for it), sends exactly once and then ends, whether slowDBQuery
\* returns the result, returns ctx.Err(), or has not returned.
C28_HelperTerminates ==
  /\ [](\A q \in Queries :
          /\ helperPc[q] = "send" => CanSend(resultCh[q], ResultCap)
          /\ helperSends[q] = (IF helperPc[q] = "done" THEN 1 ELSE 0)
          /\ Len(resultCh[q]) <= ResultCap)
  /\ \A q \in Queries : (helperPc[q] # "unstarted") ~> (helperPc[q] = "done")

C28_Witness ==
  \E q \in Queries :
    /\ queryPc[q] = "returned"
    /\ qErr[q] = "context deadline exceeded"
    /\ qResult[q] = <<>>
    /\ helperPc[q] = "done"
    /\ resultCh[q] = <<ResultOf(dbQuery[q])>>

(***************************************************************************)
(* Properties of the EventBus.                                             *)
(***************************************************************************)

\* The handlers publisher p has started so far.
StartedHandlers(p) == {started[p][i][1] : i \in 1..Len(started[p])}

\* C29: a Publish starts, with its own event, invocations of handlers that
\* had subscribed to the event's type when it read the map, and of no other
\* handler; none twice; when Publish returns, one for each of them; an
\* invocation runs at most once and only after it was started; and Publish
\* holds no lock once it has read the map, so none while handlers run.
C29_PublishDelivery ==
  /\ \A p \in Pubs :
       /\ \A i \in 1..Len(started[p]) :
            /\ started[p][i][2] = Event(pubType[p], p)
            /\ started[p][i][1] \in snapSubs[p]
            /\ subType[started[p][i][1]] = pubType[p]
            /\ \A k \in 1..Len(started[p]) :
                 started[p][k][1] = started[p][i][1] => k = i
       /\ pubPc[p] = "done" => StartedHandlers(p) = snapSubs[p]
       /\ pubPc[p] \in {"loop", "done"} => p \notin ebReaders
       /\ started[p] # <<>> => p \notin ebReaders
  /\ \A x \in pendingInv :
       /\ \E i \in 1..Len(started[x[1]]) : started[x[1]][i] = x[2]
       /\ \A i \in 1..Len(ran[x[1]]) : ran[x[1]][i] # x[2]
  /\ \A p \in Pubs : \A i \in 1..Len(ran[p]) :
       /\ \E k \in 1..Len(started[p]) : started[p][k] = ran[p][i]
       /\ \A k \in 1..Len(ran[p]) : ran[p][k] = ran[p][i] => k = i

\* Two handlers of one Publish have run in the reverse of the order in which
\* they subscribed.
C29_Witness ==
  \E p \in Pubs :
    /\ pubPc[p] = "done"
    /\ Len(snap[p]) = 2
    /\ Len(ran[p]) = 2
    /\ ran[p][1] = Invocation(snap[p][2], Event(pubType[p], p))
    /\ ran[p][2] = Invocation(snap[p][1], Event(pubType[p], p))

(***************************************************************************)
(* Properties of Chunk.                                                    *)
(***************************************************************************)

RECURSIVE Flat(_)
Flat(cs) == IF cs = <<>> THEN <<>> ELSE Head(cs) \o Flat(Tail(cs))

\* The chunks concatenated are the argument, and every chunk but the last
\* has n elements.
ChunksOf(cs, s, n) ==
  /\ Flat(cs) = s
  /\ \A i \in 1..(Len(cs) - 1) : Len(cs[i]) = n

\* C30: for every slice and every integer size Chunk returns (every
\* iteration shortens the slice, none panics), and the chunks it returns,
\* concatenated in order, are the argument slice, each but the last having
\* exactly `size` elements.
C30_ChunkTerminates ==
  /\ <>(chunkPc = "returned")
  /\ [](chunkPc # "panicked")
  /\ [][chunkPc' = "loop" => Len(slice') < Len(slice)]_vars
  /\ [](chunkPc = "returned" => ChunksOf(chunks, slice0, size0))

\* The same for sizes of 1 or more.
ChunkPositiveSize ==
  /\ (size0 >= 1) ~> (chunkPc = "returned")
  /\ [](size0 >= 1 =>
          /\ chunkPc # "panicked"
          /\ chunkPc = "loop" /\ slice # <<>> => Len(chunks) < MaxChunks
          /\ chunkPc = "returned" => ChunksOf(chunks, slice0, size0))

\* A call with more elements than size that returned several chunks.
ChunkPositiveSizeWitness ==
  /\ chunkPc = "returned"
  /\ Len(chunks) >= 2
  /\ Len(chunks[Len(chunks)]) < size0

====
